------------------------------ MODULE LossyFifo ------------------------------
(***************************************************************************)
(* What a background export pipeline promises its callers: the events it   *)
(* accepts come out in the order they went in, none of them twice, though  *)
(* some may be discarded on the way.  BatchExporter implements this.       *)
(***************************************************************************)
EXTENDS Naturals, Sequences, SequencesExt

CONSTANT Elements

VARIABLES
  pipe,       \* accepted, neither delivered nor discarded yet
  delivered   \* handed to the consumer, oldest first

fifoVars == <<pipe, delivered>>

FifoInit ==
  /\ pipe = <<>>
  /\ delivered = <<>>

Accept(e) ==
  /\ e \notin ToSet(pipe) \cup ToSet(delivered)
  /\ pipe' = Append(pipe, e)
  /\ UNCHANGED delivered

Deliver ==
  /\ pipe # <<>>
  /\ delivered' = Append(delivered, Head(pipe))
  /\ pipe' = Tail(pipe)

Discard(i) ==
  /\ pipe' = RemoveAt(pipe, i)
  /\ UNCHANGED delivered

FifoNext ==
  \/ \E e \in Elements : Accept(e)
  \/ Deliver
  \/ \E i \in DOMAIN pipe : Discard(i)

FifoSpec == FifoInit /\ [][FifoNext]_fifoVars
=============================================================================
