------------------------------ MODULE MCStudies ------------------------------
EXTENDS Studies, StudyTapes
=============================================================================
