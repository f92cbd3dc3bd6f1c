--------------------------- MODULE SnapshotRegister ---------------------------
(***************************************************************************)
(* What the snapshot store promises for one tenant and workload, told      *)
(* without files: a register that one operator writes, clears and reads.   *)
(* A write that was broken off may take effect later, or leave the         *)
(* register unreadable, but                                                *)
(*   - a value comes from a write and, once superseded, never comes back;  *)
(*   - a write that is acknowledged and met no other write has taken       *)
(*     effect;                                                             *)
(*   - a read delivers a whole value: the one the register had when the    *)
(*     read began, or one of a write that was still at work then.          *)
(***************************************************************************)
CONSTANTS Archives, Nothing

VARIABLES
    value,      \* what can be read now, or Nothing
    afloat,     \* values that are, or may still become, readable
    live,       \* writes that are still at work, acknowledged to nobody
    write,      \* the write the operator waits for, or Nothing
    sole,       \* that write has met no other write
    reading,    \* values the read in progress may deliver; {} between reads
    acknowledged, delivered     \* the values written and delivered last

registerVars == <<value, afloat, live, write, sole, reading, acknowledged, delivered>>

RegisterInit ==
    /\ value = Nothing /\ write = Nothing /\ acknowledged = Nothing /\ delivered = Nothing
    /\ afloat = {} /\ live = {} /\ reading = {}
    /\ sole = FALSE

BeginWrite(n) ==
    /\ write = Nothing
    /\ reading = {}
    /\ n \notin afloat \cup live
    /\ write' = n
    /\ sole' = (live = {})
    /\ live' = live \cup {n}
    /\ afloat' = afloat \cup {n}
    /\ UNCHANGED <<value, reading, acknowledged, delivered>>

\* Writes at work replace the value, spoil it, or come to their end.
Progress ==
    /\ live # {}
    /\ live' \subseteq live
    /\ afloat' \subseteq afloat
    /\ value' \in afloat \cup {Nothing}
    /\ UNCHANGED <<write, sole, reading, acknowledged, delivered>>

Acknowledge ==
    /\ write # Nothing
    /\ write \notin live
    /\ sole => value = write
    /\ write' = Nothing
    /\ sole' = FALSE
    /\ acknowledged' = write
    /\ UNCHANGED <<value, afloat, live, reading, delivered>>

BreakOff ==
    /\ write # Nothing
    /\ write' = Nothing
    /\ sole' = FALSE
    /\ UNCHANGED <<value, afloat, live, reading, acknowledged, delivered>>

Clear ==
    /\ write = Nothing
    /\ value' = Nothing
    /\ afloat' \subseteq afloat
    /\ UNCHANGED <<live, write, sole, reading, acknowledged, delivered>>

BeginRead ==
    /\ write = Nothing
    /\ reading' = ({value} \cup IF live # {} THEN afloat ELSE {}) \ {Nothing}
    /\ UNCHANGED <<value, afloat, live, write, sole, acknowledged, delivered>>

Deliver ==
    /\ delivered' \in reading
    /\ reading' = {}
    /\ UNCHANGED <<value, afloat, live, write, sole, acknowledged>>

EndRead ==
    /\ reading' = {}
    /\ UNCHANGED <<value, afloat, live, write, sole, acknowledged, delivered>>

RegisterNext ==
    \/ \E n \in Archives : BeginWrite(n)
    \/ Progress \/ Acknowledge \/ BreakOff \/ Clear
    \/ BeginRead \/ Deliver \/ EndRead

RegisterSpec == RegisterInit /\ [][RegisterNext]_registerVars
=============================================================================
