------------------------------ MODULE MCBrief ------------------------------
EXTENDS Brief

CONSTANTS claude, codex, gemini

TheRequired == <<claude, codex>>
TheOptional == <<gemini>>
=============================================================================
