-------------------------- MODULE MeshRelayHistory ---------------------------
(***************************************************************************)
(* MeshRelay with a history variable, for what a whole behaviour of the    *)
(* flood achieves: who was reached by a packet.  No node restarts here: a  *)
(* restart may lose the only copy of a packet, and no reach is promised    *)
(* then.                                                                   *)
(***************************************************************************)
EXTENDS MeshRelay

VARIABLE
  heard      \* [Node -> SUBSET Packet]: what onDataRecv has been given

hvars == <<vars, heard>>

HInit == Init /\ heard = [n \in Node |-> {}]

HMint(o) == Mint(o) /\ UNCHANGED heard

HReceive(n) ==
  /\ Receive(n)
  /\ heard' = [heard EXCEPT ![n] = @ \union {Head(rx[n]).inner}]

HForward(n, i) == Forward(n, i) /\ UNCHANGED heard

HNext ==
  \/ \E o \in Master : HMint(o)
  \/ \E n \in Node : HReceive(n)
  \/ \E n \in Node : \E i \in PendingSlot : HForward(n, i)

HSpec == HInit /\ [][HNext]_hvars

\* The fairness of MeshRelay: callbacks run, due forwards are sent.
HFairSpec ==
  /\ HSpec
  /\ \A n \in Node :
       WF_hvars(HReceive(n)) /\ \A i \in PendingSlot : WF_hvars(HForward(n, i))

-----------------------------------------------------------------------------
Minted(p) == boots[p.src] = p.boot /\ mediaSyncSeq[p.src] >= p.seq

\* On a chain of at most MAX_HOPS + 2 nodes that loses nothing, every packet a
\* master mints reaches every other node: neither the one-entry dedup, nor the
\* suppression of overheard forwards, nor the bounded tables may eat the only copy
\* on its way, and the hop budget lets it through to the far end.
ChainIsCovered ==
  \A p \in Packet : p.src \in Master =>
    (Minted(p) ~> \A n \in Node \ {p.src} : p \in heard[n])

=============================================================================
