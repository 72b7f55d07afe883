------------------------------- MODULE Sightings -------------------------------
(***************************************************************************)
(* What the read ledger says of a sighting, for the file tools (ReadLedger) *)
(* and the memory tools (Memory).  A version of a file is its own stamp.    *)
(***************************************************************************)
EXTENDS Naturals

CONSTANT
    MaxVersion  \* bound on the versions of files

\* There is a first version, and the bound leaves room for it.
ASSUME LedgerAssumption == MaxVersion \in Nat \ {0}

NoStamp == MaxVersion + 1   \* metadata that could not be read

\* A missing dimension abstains.
Differs(a, b) == a # NoStamp /\ b # NoStamp /\ a # b

Standing(sighting, now) ==
    IF ~sighting.known THEN "never"
    ELSE IF Differs(sighting.stamp, now) THEN "stale"
    ELSE IF sighting.evicted THEN "evicted" ELSE "current"

================================================================================
