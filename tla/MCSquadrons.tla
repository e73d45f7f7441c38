----------------------------- MODULE MCSquadrons -----------------------------
EXTENDS Squadrons
=============================================================================
