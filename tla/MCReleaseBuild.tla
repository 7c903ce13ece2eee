----------------------------- MODULE MCReleaseBuild -----------------------------
EXTENDS ReleaseBuild

CONSTANTS manifest, requirements, skills

MCOrder == <<manifest, requirements, skills>>
=============================================================================
