---------------------------- MODULE HoldoutLedger ----------------------------
(***************************************************************************)
(* What a session promises about its frozen holdout, whoever reads it and  *)
(* in whatever order: every published read is entered once, at the end, and *)
(* stays; only the very first is labelled locked_first_read, and only it   *)
(* may be significant; a holdout that was read before is read again only   *)
(* with explicit consent, and the entry says which read of it this is.     *)
(***************************************************************************)
EXTENDS Naturals, Sequences

CONSTANTS
    Fingerprints,   \* the holdout revisions a read may belong to
    LegacyReads     \* reads made before fingerprints were recorded

VARIABLES
    ledger,         \* the published reads, oldest first
    counts          \* how often each fingerprint was read

Entry == [fp : Fingerprints,
          first : BOOLEAN,          \* labelled locked_first_read
          same : Nat \ {0},         \* same_holdout_read_index
          consent : BOOLEAN,        \* confirm_repeat
          significant : BOOLEAN]

Reads == LegacyReads + Len(ledger)

(* Legacy reads carry no fingerprint: until one is recorded they count as     *)
(* reads of whatever holdout is asked for.                                    *)
SeenBefore(fp) ==
    \/ counts[fp] > 0
    \/ LegacyReads > 0 /\ \A g \in Fingerprints : counts[g] = 0

Init ==
    /\ ledger = <<>>
    /\ counts = [fp \in Fingerprints |-> 0]

Read(e) ==
    /\ SeenBefore(e.fp) => e.consent
    /\ e.first <=> Reads = 0
    /\ e.significant => e.first
    /\ e.same = counts[e.fp] + 1
    /\ ledger' = Append(ledger, e)
    /\ counts' = [counts EXCEPT ![e.fp] = @ + 1]

(* A step is recognised by the entry it appends. *)
Next ==
    /\ Len(ledger') = Len(ledger) + 1
    /\ ledger'[Len(ledger')] \in Entry
    /\ Read(ledger'[Len(ledger')])

Spec == Init /\ [][Next]_<<ledger, counts>>
=============================================================================
