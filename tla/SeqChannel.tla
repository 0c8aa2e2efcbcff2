------------------------------ MODULE SeqChannel ------------------------------
(***************************************************************************)
(* SeqTracker (transports/rust/src/datagrams.rs) at the end of a channel   *)
(* that loses, repeats and reorders datagrams, as DatagramCarrier allows.  *)
(* The tracker classifies each arrival by its sequence number and epoch.   *)
(*                                                                         *)
(* The library leaves numbering to the sender; the one here follows        *)
(* docs/csil-datagrams-transport.md (2.2, 3): sequence numbers grow by one *)
(* and wrap, 0 stands for "unsequenced", and a restart starts them afresh  *)
(* under the next epoch.  A datagram also has its place in the order of    *)
(* sending and the life of the sender it is from.  The tracker sees        *)
(* neither; the properties compare its verdicts with them.                 *)
(***************************************************************************)
EXTENDS Naturals, FiniteSets

CONSTANTS
  SeqSpace,      \* the number of sequence numbers: 2^16 in the compact profile
  EpochSpace,    \* the number of epochs: 2^8
  NoEpoch,       \* Option::None of a datagram without an epoch
  None,          \* Option::None of a tracker that has seen nothing
  MaxDatagrams,  \* bound: datagrams sent
  MaxRestarts,   \* bound: restarts of the sender
  MaxRepeats     \* bound: datagrams the network delivers again

ASSUME SeqAssumption ==
  /\ SeqSpace \in Nat \ {0, 1} /\ EpochSpace \in Nat \ {0, 1}
  /\ NoEpoch \notin Nat /\ None \notin Nat
  /\ MaxDatagrams \in Nat /\ MaxRestarts \in Nat /\ MaxRepeats \in Nat

VARIABLES
  tracksRestarts, \* the sender puts an epoch into its datagrams
  count,          \* datagrams sent
  place,          \* sequenced datagrams sent since the last restart
  restarts,       \* restarts of the sender
  network,        \* datagrams on the way
  repeats,        \* datagrams delivered again
  lastSeq,        \* SeqTracker.last_seq
  lastEpoch,      \* SeqTracker.last_epoch
  event,          \* the last SeqEvent, and the gap if it is an advance
  arrivals,       \* datagrams observed so far; the last of them is `latest`
  latest,
  run,            \* what came since the tracker last saw the epoch change:
                  \*   the datagrams, where counting began, gaps and late ones
  lives           \* the newest life seen, arrivals from older ones, restarts reported

senderState == <<tracksRestarts, count, place, restarts>>
trackerState == <<lastSeq, lastEpoch, event, arrivals, latest, run, lives>>
seqVars == <<senderState, network, repeats, trackerState>>

Epoch == IF tracksRestarts THEN restarts % EpochSpace ELSE NoEpoch

NewRun(start, base) == [seen |-> start, base |-> base, gaps |-> 0, late |-> 0]

SeqInit ==
  /\ tracksRestarts \in BOOLEAN
  /\ count = 0 /\ place = 0 /\ restarts = 0
  /\ network = {} /\ repeats = 0
  /\ lastSeq = None /\ lastEpoch = NoEpoch
  /\ event = [kind |-> "none", gap |-> 0] /\ arrivals = 0 /\ latest = None
  /\ run = NewRun({}, None)
  /\ lives = [newest |-> 0, stale |-> 0, reported |-> 0]

-----------------------------------------------------------------------------
(* The sender and the network. *)

Send(p) ==
  /\ count < MaxDatagrams
  /\ count' = count + 1
  /\ network' = network \union
       {[place |-> p, seq |-> p % SeqSpace, epoch |-> Epoch, life |-> restarts]}
  /\ UNCHANGED <<tracksRestarts, restarts, repeats, trackerState>>

SendSequenced == place' = place + 1 /\ Send(place + 1)

SendUnsequenced == UNCHANGED place /\ Send(0)

SenderRestarts ==
  /\ restarts < MaxRestarts
  /\ restarts' = restarts + 1
  /\ place' = 0
  /\ UNCHANGED <<tracksRestarts, count, network, repeats, trackerState>>

Lose ==
  /\ \E d \in network : network' = network \ {d}
  /\ UNCHANGED <<senderState, repeats, trackerState>>

-----------------------------------------------------------------------------
(* SeqTracker::observe, one operator per way out of it. *)

\* Mutant: the first epoch that is seen counts as a change.
EpochChangedFromNone(d) == d.epoch # lastEpoch

EpochChanged(d) == d.epoch # lastEpoch /\ lastEpoch # NoEpoch

\* Mutant: a restart leaves the last sequence number as it was.
RestartedKeepsSeq(d) ==
  /\ EpochChanged(d)
  /\ event' = [kind |-> "restart", gap |-> 0]
  /\ run' = NewRun({d}, d.seq)
  /\ UNCHANGED lastSeq

Restarted(d) ==
  /\ EpochChanged(d)
  /\ lastSeq' = d.seq
  /\ event' = [kind |-> "restart", gap |-> 0]
  /\ run' = NewRun({d}, d.seq)

Unsequenced(d) ==
  /\ ~EpochChanged(d) /\ d.seq = 0
  /\ event' = [kind |-> "advanced", gap |-> 0]
  /\ run' = [run EXCEPT !.seen = @ \union {d}]
  /\ UNCHANGED lastSeq

First(d) ==
  /\ ~EpochChanged(d) /\ d.seq # 0 /\ lastSeq = None
  /\ lastSeq' = d.seq
  /\ event' = [kind |-> "first", gap |-> 0]
  /\ run' = [run EXCEPT !.seen = @ \union {d}, !.base = d.seq]

\* Mutant: the gap counts the datagram that came.
AdvancedCountsItself(d) ==
  /\ ~EpochChanged(d) /\ d.seq # 0 /\ lastSeq # None
  /\ d.seq > lastSeq
  /\ lastSeq' = d.seq
  /\ event' = [kind |-> "advanced", gap |-> d.seq - lastSeq]
  /\ run' = [run EXCEPT !.seen = @ \union {d}, !.gaps = @ + event'.gap]

Advanced(d) ==
  /\ ~EpochChanged(d) /\ d.seq # 0 /\ lastSeq # None
  /\ d.seq > lastSeq
  /\ lastSeq' = d.seq
  /\ event' = [kind |-> "advanced", gap |-> d.seq - lastSeq - 1]
  /\ run' = [run EXCEPT !.seen = @ \union {d}, !.gaps = @ + event'.gap]

LateOrDuplicate(d) ==
  /\ ~EpochChanged(d) /\ d.seq # 0 /\ lastSeq # None
  /\ d.seq <= lastSeq
  /\ event' = [kind |-> "late-or-duplicate", gap |-> 0]
  /\ run' = [run EXCEPT !.seen = @ \union {d}, !.late = @ + 1]
  /\ UNCHANGED lastSeq

Observe(d) ==
  /\ Restarted(d) \/ Unsequenced(d) \/ First(d) \/ Advanced(d) \/ LateOrDuplicate(d)
  /\ lastEpoch' = d.epoch
  /\ arrivals' = arrivals + 1 /\ latest' = d
  /\ lives' = [newest   |-> IF d.life > lives.newest THEN d.life ELSE lives.newest,
               stale    |-> lives.stale + (IF d.life < lives.newest THEN 1 ELSE 0),
               reported |-> lives.reported + (IF event'.kind = "restart" THEN 1 ELSE 0)]

(* A datagram arrives; the network may keep it, to deliver it again. *)
Receive ==
  /\ \E d \in network :
       /\ Observe(d)
       /\ \/ network' = network \ {d} /\ UNCHANGED repeats
          \/ repeats < MaxRepeats /\ repeats' = repeats + 1 /\ UNCHANGED network
  /\ UNCHANGED senderState

-----------------------------------------------------------------------------
SeqNext == SendSequenced \/ SendUnsequenced \/ SenderRestarts \/ Lose \/ Receive

SeqSpec == SeqInit /\ [][SeqNext]_seqVars

-----------------------------------------------------------------------------
SeqTypeOK ==
  /\ count \in 0 .. MaxDatagrams /\ place \in 0 .. count
  /\ restarts \in 0 .. MaxRestarts /\ repeats \in 0 .. MaxRepeats
  /\ lastSeq \in 0 .. SeqSpace - 1 \union {None}
  /\ lastEpoch \in 0 .. EpochSpace - 1 \union {NoEpoch}
  /\ event.kind \in {"none", "restart", "first", "advanced", "late-or-duplicate"}
  /\ event.gap \in 0 .. SeqSpace - 2
  /\ arrivals \in 0 .. MaxDatagrams + MaxRepeats
  /\ lives.newest \in 0 .. restarts

(* The tracker can compare what it has seen: one life of the sender, no      *)
(* further than its last sequence number.                                    *)
Comparable(datagrams) ==
  \A d, e \in datagrams : d.life = e.life /\ d.place < SeqSpace

(* In whatever order datagrams come, and however often, one is reported as   *)
(* newer exactly when it was sent after all that came before, up to the last *)
(* sequence number before the wrap, also after a restart and after datagrams *)
(* of an old life.                                                           *)
NewerExactlyWhenNewer ==
  [][(arrivals' # arrivals /\ latest'.place # 0 /\ event'.kind # "restart"
      /\ Comparable(run.seen \union {latest'}))
     => (event'.kind \in {"first", "advanced"}
         <=> \A d \in run.seen : d.place < latest'.place)]_seqVars

(* Gaps count losses: of the datagrams sent between the first and the newest *)
(* that came, the sum of the gaps misses none that has not come, and exceeds *)
(* their number by no more than what came late.                              *)
GapsCountLosses ==
  (run.base # None /\ Comparable(run.seen)) =>
    LET missing == {p \in run.base .. lastSeq : p # 0 /\ \A d \in run.seen : d.place # p}
    IN Cardinality(missing) <= run.gaps /\ run.gaps <= Cardinality(missing) + run.late

(* A datagram that outlives the sender that sent it (datagrams.rs:174) is    *)
(* taken for a restart, and so is the next one of the new life.  That is     *)
(* all: every other restart reported is one of the sender.                   *)
RestartsReported ==
  lives.reported <= lives.newest + 2 * lives.stale
=============================================================================
