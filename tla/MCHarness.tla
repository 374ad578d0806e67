------------------------------ MODULE MCHarness ------------------------------
EXTENDS Harness
\* Two checks of an opt-in group, the second of them heavy.
Registry == <<"health", "lifecycle", "overrun", "flood">>
GroupOf == [c \in {"health", "lifecycle", "overrun", "flood"} |->
              IF c \in {"health", "lifecycle"} THEN "core" ELSE "timeout"]
SessionsOf == [c \in {"health", "lifecycle", "overrun", "flood"} |->
              CASE c = "health" -> 0 [] c = "flood" -> 2 [] OTHER -> 1]
=============================================================================
