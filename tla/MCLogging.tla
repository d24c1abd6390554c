------------------------------ MODULE MCLogging ------------------------------
EXTENDS Logging

MCSeverities == {"Info", "Warn", "Error"}

=============================================================================
