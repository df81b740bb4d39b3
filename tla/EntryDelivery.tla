--------------------------- MODULE EntryDelivery ---------------------------
(***************************************************************************)
(* What the consumer group and the batches of the engine processes owe each *)
(* other, whatever crashes, is read twice, dropped or claimed from somebody *)
(* else: no stream, pending entries list, cap or database here.            *)
(*                                                                         *)
(*   What a process newly gets to settle is valid and ACKed by nobody yet. *)
(*   A valid entry is ACKed by a process that has it in its batch, and     *)
(*   before that batch is let go; a reader ACKs only what is invalid.      *)
(*   A batch is of entries that waited in the process.                     *)
(*                                                                         *)
(* StreamConsumer has the readers in detail and little of the batches, and *)
(* SettlementPipeline the other way round: each implements this.           *)
(***************************************************************************)
CONSTANTS
    Engines,  \* processes of the group
    Entries,  \* entries of the stream
    Invalid   \* those that are no match

VARIABLES
    acked,    \* entries that have left the group
    waiting,  \* what each process has read and not yet batched
    batch     \* the batch it settles

deliveryVars == <<acked, waiting, batch>>

Init ==
    /\ acked = {}
    /\ waiting = [e \in Engines |-> {}]
    /\ batch = [e \in Engines |-> {}]

\* Nobody else's part of waiting or batch changes.
OnlyOf(e) ==
    \A d \in Engines \ {e} :
        waiting'[d] = waiting[d] /\ batch'[d] = batch[d]

\* A page is read, anew or again: its invalid entries are ACKed, of the others
\* some wait from now on, and a full accumulator may drop some.
Read(e) ==
    /\ waiting'[e] \ waiting[e] \subseteq Entries \ (acked \cup Invalid)
    /\ acked \subseteq acked' /\ acked' \ acked \subseteq Invalid
    /\ batch'[e] = batch[e]

\* A batch is taken; an entry that was read twice may be left waiting as well.
Start(e) ==
    /\ batch[e] = {} /\ batch'[e] # {}
    /\ batch'[e] \subseteq waiting[e]
    /\ waiting[e] \ batch'[e] \subseteq waiting'[e]
    /\ waiting'[e] \subseteq waiting[e]
    /\ UNCHANGED acked

\* Some of the batch is ACKed, or nothing is, and the batch perhaps ends.
Ack(e) ==
    /\ acked \subseteq acked' /\ acked' \ acked \subseteq batch[e]
    /\ batch'[e] \in {batch[e], {}}
    /\ waiting'[e] = waiting[e]

Die(e) ==
    /\ waiting'[e] = {} /\ batch'[e] = {}
    /\ UNCHANGED acked

TypeOK ==
    /\ acked \subseteq Entries
    /\ waiting \in [Engines -> SUBSET Entries]
    /\ batch \in [Engines -> SUBSET Entries]

Next ==
    /\ TypeOK'
    /\ \E e \in Engines : OnlyOf(e) /\ (Read(e) \/ Start(e) \/ Ack(e) \/ Die(e))

Spec == Init /\ [][Next]_deliveryVars
=============================================================================
