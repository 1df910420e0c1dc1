----------------------------- MODULE RegistryMC -----------------------------
\* Instances of Registry for TLC.
EXTENDS Registry

CONSTANTS a, b, c

=============================================================================
