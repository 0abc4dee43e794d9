------------------------------ MODULE MCDoctor -------------------------------
EXTENDS Doctor
=============================================================================
