---------------------------- MODULE WsBridgeProofs ----------------------------
(***************************************************************************)
(* What the websocket bridge keeps for any number of frames and any room   *)
(* in the connections: it hands on every frame once and in order, and      *)
(* closes an end only when everything the other one sent has been handed   *)
(* to it.                                                                  *)
(***************************************************************************)
EXTENDS WsBridge, TLAPS

\* The frames in a queue: a close frame can only be its last element.
Frames(q) == IF q # <<>> /\ q[Len(q)] = Close THEN Len(q) - 1 ELSE Len(q)

\* The elements of a queue continue the numbering after n; a close frame ends it.
Continues(q, n) ==
  \A i \in 1 .. Len(q) : (q[i] = n + i /\ q[i] # Close) \/ (i = Len(q) /\ q[i] = Close)

Counts(q) == \A i \in 1 .. Len(q) : q[i] = i

Typed ==
  /\ end \in [Sides -> {"none", "open", "closing", "left", "closed", "cut"}]
  /\ sent \in [Sides -> Seq(Nat)] /\ got \in [Sides -> Seq(Nat)]
  /\ inbound \in [Sides -> Seq(Nat)] /\ outbound \in [Sides -> Seq(Nat)]
  /\ conn \in [Sides -> {"none", "open", "closed"}]
  /\ loop \in [Sides -> {"off", "opening", "storing", "reading", "closing", "ended"}]
  /\ session \in BOOLEAN

\* The phases of the bridge: what is known while the target is dialled, stored and served.
Phases ==
  /\ \A s \in Sides : end[s] = "none" <=> conn[s] = "none"
  /\ loop["target"] \in {"off", "reading", "closing", "ended"}
  /\ session <=> loop["target"] # "off"
  /\ loop["client"] = "off" => conn["client"] = "none" /\ conn["target"] = "none"
  /\ loop["client"] = "opening" => conn["client"] = "open" /\ conn["target"] = "none"
  /\ loop["client"] = "storing" => conn["client"] = "open" /\ conn["target"] = "open"
  /\ loop["client"] \in {"off", "opening", "storing"} => ~session
  /\ loop["client"] \in {"reading", "closing", "ended"} /\ ~session => conn["target"] = "none"

\* The target may still be dialled, or the client upgraded.
Coming(s) ==
  conn[s] = "none" /\ loop["client"] \in (IF s = "client" THEN {"off"} ELSE {"off", "opening"})

\* Frames read from the other end still reach s.
Linked(s) == Coming(s) \/ (conn[s] = "open" /\ end[s] # "cut")

\* The frames handed to s so far, when no close frame is among them.
Handed(s) == Len(got[s]) + Len(outbound[s])

\* Nothing is lost, doubled or reordered on the way to s.
InOrder(s) ==
  /\ Counts(sent[s]) /\ Counts(got[s])
  /\ Continues(outbound[s], Len(got[s]))
  /\ Len(got[s]) + Frames(outbound[s]) <= Len(sent[Other(s)])
  /\ Linked(s) =>
       /\ Continues(inbound[Other(s)], Handed(s))
       /\ Handed(s) + Frames(inbound[Other(s)]) <= Len(sent[Other(s)])
       /\ end[Other(s)] # "cut" => Handed(s) + Frames(inbound[Other(s)]) = Len(sent[Other(s)])

\* Where close frames are, and who closed a connection.
Closings(s) ==
  /\ conn[s] = "none" => sent[s] = <<>> /\ got[s] = <<>> /\ inbound[s] = <<>> /\ outbound[s] = <<>>
  /\ (\E i \in 1 .. Len(inbound[s]) : inbound[s][i] = Close) => end[s] \in {"closing", "left", "cut"}
  /\ (\E i \in 1 .. Len(outbound[s]) : outbound[s][i] = Close) => conn[s] = "closed"
  /\ end[s] = "closed" => conn[s] = "closed" /\ outbound[s] = <<>>
  /\ loop[s] \in {"closing", "ended"} => conn[s] # "open"
  /\ conn[s] = "closed" /\ loop[s] = "reading" => loop[Other(s)] = "ended" \/ conn["target"] = "none"

\* The other end is gone, or has left and s has or will get everything it sent.
Finished(s) ==
  \/ end[Other(s)] = "cut"
  \/ end[Other(s)] = "none" /\ ~Coming(Other(s))
  \/ /\ end[Other(s)] \in {"closing", "left"}
     /\ Len(got[s]) + Frames(outbound[s]) = Len(sent[Other(s)])

\* The bridge closes an end that has not left only when the other one is finished.
ClosedForAReason(s) ==
  /\ conn[s] = "closed" /\ end[s] \in {"open", "closed"} => Finished(s)
  /\ loop[Other(s)] \in {"closing", "ended"} /\ conn[s] = "open" /\ end[s] = "open" => Finished(s)

BridgeInv ==
  /\ Typed
  /\ Phases
  /\ \A s \in Sides : InOrder(s) /\ Closings(s) /\ ClosedForAReason(s)

-----------------------------------------------------------------------------
(* Sides and queues.                                                       *)

LEMMA TwoSides ==
  ASSUME NEW s \in Sides
  PROVE  /\ Other(s) \in Sides /\ Other(s) # s /\ Other(Other(s)) = s
         /\ \A t \in Sides : t = s \/ t = Other(s)
BY DEF Sides, Other

LEMMA FramesType ==
  ASSUME NEW q \in Seq(Nat)
  PROVE  /\ Frames(q) \in Nat /\ Frames(q) <= Len(q)
         /\ (\A i \in 1 .. Len(q) : q[i] # Close) => Frames(q) = Len(q)
         /\ q = <<>> => Frames(q) = 0
BY DEF Frames

\* A frame taken from the front.
LEMMA TakeFrame ==
  ASSUME NEW q \in Seq(Nat), NEW n \in Nat, Continues(q, n), q # <<>>, Head(q) # Close
  PROVE  /\ Head(q) = n + 1 /\ Tail(q) \in Seq(Nat) /\ Len(Tail(q)) = Len(q) - 1
         /\ Continues(Tail(q), n + 1) /\ Frames(q) = Frames(Tail(q)) + 1
<1>1. Len(q) \in Nat /\ Len(q) # 0 /\ Head(q) = q[1] /\ 1 \in 1 .. Len(q)
  OBVIOUS
<1> DEFINE r == Tail(q)
           m == Len(q)
<1>2. /\ r \in Seq(Nat) /\ Len(r) = m - 1
      /\ \A i \in 1 .. m - 1 : r[i] = q[i + 1] /\ i + 1 \in 1 .. Len(q)
  BY <1>1
<1>3. Head(q) = n + 1
  BY <1>1 DEF Continues
<1> HIDE DEF r
<1>4. Continues(r, n + 1)
  <2> SUFFICES ASSUME NEW i \in 1 .. m - 1
               PROVE  \/ r[i] = (n + 1) + i /\ r[i] # Close
                      \/ i = m - 1 /\ r[i] = Close
    BY <1>2 DEF Continues
  <2>1. (q[i + 1] = n + (i + 1) /\ q[i + 1] # Close) \/ (i + 1 = m /\ q[i + 1] = Close)
    BY <1>2 DEF Continues
  <2>2. n + (i + 1) = (n + 1) + i /\ (i + 1 = m => i = m - 1) /\ r[i] = q[i + 1]
    BY <1>1, <1>2
  <2> QED
    BY <2>1, <2>2
<1>5. Frames(q) = Frames(r) + 1
  <2>1. CASE m = 1
    <3>1. r = <<>>
      BY <1>2, <2>1
    <3>2. q[m] # Close /\ q # <<>>
      BY <1>1, <2>1
    <3> QED
      BY <1>1, <1>2, <2>1, <3>1, <3>2 DEF Frames
  <2>2. CASE m # 1
    <3>1. Len(r) # 0 /\ Len(r) \in 1 .. m - 1 /\ Len(r) + 1 = m
      BY <1>1, <1>2, <2>2
    <3>2. r # <<>> /\ r[Len(r)] = q[m]
      BY <1>2, <3>1
    <3> QED
      BY <1>1, <1>2, <3>1, <3>2 DEF Frames
  <2> QED
    BY <2>1, <2>2
<1> QED
  BY <1>2, <1>3, <1>4, <1>5 DEF r

LEMMA TakeClose ==
  ASSUME NEW q \in Seq(Nat), NEW n \in Nat, Continues(q, n), q # <<>>, Head(q) = Close
  PROVE  Frames(q) = 0 /\ Len(q) = 1 /\ Tail(q) = <<>>
<1>1. Len(q) \in Nat /\ Len(q) # 0 /\ Head(q) = q[1] /\ 1 \in 1 .. Len(q)
  OBVIOUS
<1>2. Len(q) = 1
  BY <1>1 DEF Continues
<1>3. q[Len(q)] = Close
  BY <1>1, <1>2
<1>4. Tail(q) = <<>>
  <2>1. Tail(q) \in Seq(Nat) /\ Len(Tail(q)) = Len(q) - 1
    BY <1>1
  <2> DEFINE r == Tail(q)
  <2>2. r \in Seq(Nat) /\ Len(r) = 0
    BY <1>2, <2>1
  <2> HIDE DEF r
  <2>3. r = <<>>
    BY <2>2
  <2> QED
    BY <2>3 DEF r
<1> QED
  BY <1>2, <1>3, <1>4 DEF Frames

LEMMA PutFrame ==
  ASSUME NEW q \in Seq(Nat), NEW n \in Nat, Continues(q, n), \A i \in 1 .. Len(q) : q[i] # Close,
         NEW f, f = n + Len(q) + 1
  PROVE  LET p == Append(q, f)
         IN /\ p \in Seq(Nat) /\ Len(p) = Len(q) + 1 /\ Continues(p, n)
            /\ \A i \in 1 .. Len(p) : p[i] # Close
            /\ Frames(p) = Len(q) + 1 /\ Frames(q) = Len(q)
<1>1. f \in Nat /\ f # Close /\ Len(q) \in Nat
  BY DEF Close
<1> DEFINE p == Append(q, f)
<1>2. /\ p \in Seq(Nat) /\ Len(p) = Len(q) + 1 /\ p[Len(q) + 1] = f
      /\ \A i \in 1 .. Len(q) : p[i] = q[i]
  BY <1>1
<1> HIDE DEF p
<1>3. \A i \in 1 .. Len(p) : i = Len(q) + 1 \/ i \in 1 .. Len(q)
  BY <1>1, <1>2
<1>4. \A i \in 1 .. Len(p) : p[i] # Close
  BY <1>1, <1>2, <1>3
<1>5. \A i \in 1 .. Len(q) : q[i] = n + i
  BY DEF Continues
<1>6. Continues(p, n)
  <2> SUFFICES ASSUME NEW i \in 1 .. Len(p) PROVE p[i] = n + i /\ p[i] # Close
    BY DEF Continues
  <2>1. CASE i = Len(q) + 1
    <3>1. n + Len(q) + 1 = n + (Len(q) + 1)
      BY <1>1
    <3> QED
      BY <1>2, <1>4, <2>1, <3>1
  <2>2. CASE i \in 1 .. Len(q)
    BY <1>2, <1>4, <1>5, <2>2
  <2> QED
    BY <1>3, <2>1, <2>2
<1>7. Frames(p) = Len(q) + 1 /\ Frames(q) = Len(q)
  BY <1>2, <1>4, FramesType
<1> QED
  BY <1>2, <1>4, <1>6, <1>7 DEF p

LEMMA PutClose ==
  ASSUME NEW q \in Seq(Nat), NEW n \in Nat, Continues(q, n), \A i \in 1 .. Len(q) : q[i] # Close
  PROVE  /\ Append(q, Close) \in Seq(Nat) /\ Len(Append(q, Close)) = Len(q) + 1
         /\ Append(q, Close)[Len(q) + 1] = Close
         /\ Continues(Append(q, Close), n) /\ Frames(Append(q, Close)) = Frames(q)
<1>1. Close \in Nat /\ Len(q) \in Nat
  BY DEF Close
<1> DEFINE p == Append(q, Close)
<1>2. /\ p \in Seq(Nat) /\ Len(p) = Len(q) + 1 /\ p[Len(q) + 1] = Close
      /\ \A i \in 1 .. Len(q) : p[i] = q[i]
  BY <1>1
<1>3. p # <<>>
  BY <1>1, <1>2
<1> HIDE DEF p
<1>4. \A i \in 1 .. Len(p) : i = Len(q) + 1 \/ i \in 1 .. Len(q)
  BY <1>1, <1>2
<1>5. Continues(p, n)
  BY <1>1, <1>2, <1>4 DEF Continues
<1>6. Frames(p) = Frames(q)
  <2>1. Frames(q) = Len(q)
    BY FramesType
  <2> QED
    BY <1>1, <1>2, <1>3, <2>1 DEF Frames
<1> QED
  BY <1>2, <1>5, <1>6 DEF p

LEMMA CutShort ==
  ASSUME NEW q \in Seq(Nat), NEW n \in Nat, Continues(q, n), NEW i \in 0 .. Len(q)
  PROVE  LET p == SubSeq(q, 1, i)
         IN /\ p \in Seq(Nat) /\ Continues(p, n) /\ Frames(p) <= Frames(q)
            /\ \A j \in 1 .. Len(p) : j \in 1 .. Len(q) /\ p[j] = q[j]
<1> DEFINE p == SubSeq(q, 1, i)
<1>1. Len(q) \in Nat
  OBVIOUS
<1>2. /\ p \in Seq(Nat) /\ Len(p) = i
      /\ \A j \in 1 .. i : j \in 1 .. Len(q) /\ p[j] = q[j]
  BY <1>1
<1> HIDE DEF p
<1>3. Continues(p, n)
  <2> SUFFICES ASSUME NEW j \in 1 .. i PROVE (p[j] = n + j /\ p[j] # Close) \/ (j = i /\ p[j] = Close)
    BY <1>2 DEF Continues
  <2>1. (q[j] = n + j /\ q[j] # Close) \/ (j = Len(q) /\ q[j] = Close)
    BY <1>2 DEF Continues
  <2> QED
    BY <1>1, <1>2, <2>1
<1>4. Frames(p) <= Frames(q)
  <2>1. CASE i = Len(q)
    <3>1. q # <<>> => p # <<>> /\ p[i] = q[i]
      BY <1>1, <1>2, <2>1
    <3>2. q = <<>> => p = <<>>
      BY <1>1, <1>2, <2>1
    <3> QED
      BY <1>1, <1>2, <2>1, <3>1, <3>2 DEF Frames
  <2>2. CASE i # Len(q)
    <3>1. Frames(p) <= i /\ Frames(p) \in Nat
      BY <1>2, FramesType
    <3>2. i <= Len(q) - 1 /\ Len(q) - 1 <= Frames(q) /\ Frames(q) \in Nat
      BY <1>1, <2>2 DEF Frames
    <3> QED
      BY <1>1, <3>1, <3>2
  <2> QED
    BY <2>1, <2>2
<1> QED
  BY <1>2, <1>3, <1>4 DEF p

-----------------------------------------------------------------------------
(* The invariant is kept.                                                  *)

LEMMA EmptyQueue ==
  /\ <<>> \in Seq(Nat) /\ Len(<<>>) = 0 /\ Frames(<<>>) = 0
  /\ Counts(<<>>) /\ \A n : Continues(<<>>, n)
BY DEF Frames, Counts, Continues

LEMMA InitInv ==
  ASSUME Init
  PROVE  BridgeInv
<1>1. Typed /\ Phases
  <2>1. /\ sent = [s \in Sides |-> <<>>] /\ got = [s \in Sides |-> <<>>]
        /\ inbound = [s \in Sides |-> <<>>] /\ outbound = [s \in Sides |-> <<>>]
    BY DEF Init
  <2>2. [s \in Sides |-> <<>>] \in [Sides -> Seq(Nat)]
    BY EmptyQueue
  <2>3. Typed
    BY <2>1, <2>2 DEF Init, Typed
  <2>4. Phases
    BY DEF Init, Phases, Sides
  <2> QED
    BY <2>3, <2>4
<1>2. ASSUME NEW s \in Sides PROVE InOrder(s) /\ Closings(s) /\ ClosedForAReason(s)
  <2>1. /\ end[s] = "none" /\ conn[s] = "none" /\ loop[s] = "off"
        /\ sent[s] = <<>> /\ got[s] = <<>> /\ inbound[s] = <<>> /\ outbound[s] = <<>>
        /\ sent[Other(s)] = <<>> /\ inbound[Other(s)] = <<>> /\ loop[Other(s)] = "off"
    BY TwoSides DEF Init
  <2> QED
    BY <2>1, EmptyQueue DEF InOrder, Closings, ClosedForAReason, Handed
<1> QED
  BY <1>1, <1>2 DEF BridgeInv

\* What the invariant says of one side and of its queues.
LEMMA SideFacts ==
  ASSUME BridgeInv, NEW s \in Sides
  PROVE  /\ InOrder(s) /\ Closings(s) /\ ClosedForAReason(s)
         /\ sent[s] \in Seq(Nat) /\ got[s] \in Seq(Nat)
         /\ inbound[s] \in Seq(Nat) /\ outbound[s] \in Seq(Nat)
         /\ Len(sent[s]) \in Nat /\ Len(got[s]) \in Nat /\ Len(outbound[s]) \in Nat /\ Handed(s) \in Nat
         /\ Frames(inbound[s]) \in Nat /\ Frames(outbound[s]) \in Nat
         /\ conn[s] = "open" => Frames(outbound[s]) = Len(outbound[s])
<1>1. /\ sent[s] \in Seq(Nat) /\ got[s] \in Seq(Nat)
      /\ inbound[s] \in Seq(Nat) /\ outbound[s] \in Seq(Nat)
  BY DEF BridgeInv, Typed
<1>2. InOrder(s) /\ Closings(s) /\ ClosedForAReason(s)
  BY DEF BridgeInv
<1>3. conn[s] = "open" => \A i \in 1 .. Len(outbound[s]) : outbound[s][i] # Close
  BY <1>2 DEF Closings
<1>4. Frames(inbound[s]) \in Nat /\ Frames(outbound[s]) \in Nat
  BY <1>1, FramesType
<1>5. conn[s] = "open" => Frames(outbound[s]) = Len(outbound[s])
  BY <1>1, <1>3, FramesType
<1>6. Len(sent[s]) \in Nat /\ Len(got[s]) \in Nat /\ Len(outbound[s]) \in Nat
  BY <1>1
<1>7. Handed(s) \in Nat
  <2> DEFINE m == Len(got[s])
             n == Len(outbound[s])
  <2>1. m \in Nat /\ n \in Nat
    BY <1>6
  <2> HIDE DEF m, n
  <2>2. m + n \in Nat
    BY <2>1
  <2> QED
    BY <2>2 DEF Handed, m, n
<1> QED
  BY <1>1, <1>2, <1>4, <1>5, <1>6, <1>7

\* What is on the way from s, when it still reaches the other end.
LEMMA LinkFacts ==
  ASSUME BridgeInv, NEW s \in Sides, Linked(Other(s))
  PROVE  /\ Continues(inbound[s], Handed(Other(s)))
         /\ Handed(Other(s)) + Frames(inbound[s]) <= Len(sent[s])
         /\ end[s] # "cut" => Handed(Other(s)) + Frames(inbound[s]) = Len(sent[s])
BY TwoSides, SideFacts DEF InOrder

\* A step whose effect on both sides is fine keeps the invariant.
LEMMA BothSides ==
  ASSUME NEW s \in Sides, Typed', Phases',
         (InOrder(s) /\ Closings(s) /\ ClosedForAReason(s))',
         (InOrder(Other(s)) /\ Closings(Other(s)) /\ ClosedForAReason(Other(s)))'
  PROVE  BridgeInv'
BY TwoSides DEF BridgeInv

LEMMA UpgradeInv ==
  ASSUME BridgeInv, Upgrade
  PROVE  BridgeInv'
<1> DEFINE s == "client"
<1>0. s \in Sides /\ Other(s) = "target" /\ "target" \in Sides /\ Other("target") = s
  BY DEF Sides, Other
<1>1. /\ loop[s] = "off" /\ conn[s] = "none" /\ conn["target"] = "none" /\ ~session
      /\ loop["target"] = "off" /\ end[s] = "none" /\ end["target"] = "none"
  BY <1>0 DEF BridgeInv, Phases, Upgrade
<1>2. /\ UNCHANGED <<sent, got, inbound, outbound, session>>
      /\ conn'["target"] = conn["target"] /\ end'["target"] = end["target"] /\ loop'["target"] = loop["target"]
      /\ \/ loop'[s] = "opening" /\ end'[s] = "open" /\ conn'[s] = "open"
         \/ loop'[s] = "ended" /\ end'[s] = "none" /\ conn'[s] = "none"
  BY <1>0, <1>1 DEF Upgrade, wires, BridgeInv, Typed
<1>3. Typed'
  BY <1>0 DEF Upgrade, wires, BridgeInv, Typed
<1>4. Phases'
  BY <1>0, <1>1, <1>2 DEF Phases, Sides
<1>5. ASSUME NEW t \in Sides
      PROVE  /\ sent[t] = <<>> /\ got[t] = <<>> /\ inbound[t] = <<>> /\ outbound[t] = <<>>
  BY <1>0, <1>1, SideFacts DEF Closings, Sides
<1>6. InOrder(s)' /\ InOrder("target")'
  <2>1. ASSUME NEW t \in Sides PROVE InOrder(t)'
    <3>1. /\ sent'[t] = <<>> /\ got'[t] = <<>> /\ outbound'[t] = <<>>
          /\ sent'[Other(t)] = <<>> /\ inbound'[Other(t)] = <<>>
      BY <1>2, <1>5, TwoSides
    <3>2. Handed(t)' = 0
      BY <3>1, EmptyQueue DEF Handed
    <3> QED
      BY <3>1, <3>2, EmptyQueue DEF InOrder
  <2> QED
    BY <1>0, <2>1
<1>7. Closings(s)' /\ Closings("target")'
  BY <1>0, <1>1, <1>2, <1>5, EmptyQueue DEF Closings
<1>8. ClosedForAReason(s)' /\ ClosedForAReason("target")'
  BY <1>0, <1>1, <1>2 DEF ClosedForAReason
<1> QED
  BY <1>0, <1>3, <1>4, <1>6, <1>7, <1>8, BothSides

LEMMA StoreInv ==
  ASSUME BridgeInv, Store
  PROVE  BridgeInv'
<1>0. "client" \in Sides /\ Other("client") = "target" /\ "target" \in Sides /\ Other("target") = "client"
  BY DEF Sides, Other
<1>1. /\ loop["client"] = "storing" /\ loop["target"] = "off" /\ ~session
      /\ conn["client"] = "open" /\ conn["target"] = "open"
  BY <1>0 DEF BridgeInv, Phases, Store
<1>2. /\ UNCHANGED <<end, sent, got, inbound, outbound, conn>>
      /\ session' = TRUE /\ loop'["client"] = "reading" /\ loop'["target"] = "reading"
  BY <1>0 DEF Store, ends, wires
<1>3. Typed'
  BY <1>0, <1>2 DEF Store, BridgeInv, Typed
<1>4. Phases'
  BY <1>0, <1>1, <1>2 DEF Phases, BridgeInv, Sides
<1>5. ASSUME NEW t \in Sides PROVE (InOrder(t) /\ Closings(t) /\ ClosedForAReason(t))'
  <2>1. InOrder(t) /\ Closings(t) /\ conn[t] = "open"
    BY <1>1, SideFacts DEF Sides
  <2>2. loop'[t] = "reading" /\ loop'[Other(t)] = "reading"
    BY <1>2, TwoSides DEF Sides
  <2> QED
    BY <1>2, <2>1, <2>2 DEF InOrder, Closings, ClosedForAReason, Linked, Coming, Handed
<1> QED
  BY <1>3, <1>4, <1>5 DEF BridgeInv

LEMMA SendInv ==
  ASSUME BridgeInv, NEW s \in Sides, Send(s)
  PROVE  BridgeInv'
<1> DEFINE o == Other(s)
           f == Len(sent[s]) + 1
<1>0. o \in Sides /\ o # s /\ Other(o) = s /\ (\A t \in Sides : t = s \/ t = o)
  BY TwoSides
<1> HIDE DEF o
<1>1. /\ end[s] = "open" /\ UNCHANGED <<end, got, outbound, conn, loop, session>>
      /\ sent'[s] = Append(sent[s], f) /\ sent'[o] = sent[o]
      /\ inbound'[s] = Append(inbound[s], f) /\ inbound'[o] = inbound[o]
  BY <1>0 DEF Send, bridge, BridgeInv, Typed
<1>2. /\ sent[s] \in Seq(Nat) /\ inbound[s] \in Seq(Nat) /\ f \in Nat /\ f # Close
      /\ Closings(s) /\ InOrder(s) /\ InOrder(o)
  BY <1>0, SideFacts DEF Close
<1>3. /\ Len(sent'[s]) = f
      /\ \A i \in 1 .. f : sent'[s][i] = IF i = f THEN f ELSE sent[s][i]
  BY <1>1, <1>2
<1>4. \A i \in 1 .. Len(inbound[s]) : inbound[s][i] # Close
  BY <1>1, <1>2 DEF Closings
<1>5. Typed'
  BY <1>1, <1>2 DEF Send, bridge, BridgeInv, Typed
<1>6. Phases'
  BY <1>1 DEF Phases, BridgeInv
<1>7. InOrder(s)'
  <2>1. Counts(sent'[s])
    BY <1>2, <1>3 DEF InOrder, Counts
  <2>2. (Linked(s)' <=> Linked(s)) /\ Handed(s)' = Handed(s)
    BY <1>1 DEF Linked, Coming, Handed
  <2> QED
    BY <1>0, <1>1, <1>2, <2>1, <2>2 DEF InOrder, o
<1>8. InOrder(o)'
  <2>1. Linked(o)' <=> Linked(o)
    BY <1>1 DEF Linked, Coming
  <2>2. Len(got[o]) \in Nat /\ Len(outbound[o]) \in Nat /\ Frames(outbound[o]) \in Nat /\ Frames(inbound[s]) \in Nat
    BY <1>0, SideFacts
  <2>3. Len(got[o]) + Frames(outbound[o]) <= f
    BY <1>0, <1>2, <2>2 DEF InOrder
  <2>4. ASSUME Linked(o)
        PROVE  Continues(inbound'[s], Handed(o)) /\ Handed(o) + Frames(inbound'[s]) = f
    <3>1. /\ Handed(o) \in Nat /\ Continues(inbound[s], Handed(o))
          /\ Handed(o) + Frames(inbound[s]) = Len(sent[s])
      BY <1>0, <1>1, <2>4, LinkFacts, SideFacts DEF o
    <3>2. Frames(inbound[s]) = Len(inbound[s]) /\ Len(inbound[s]) \in Nat
      BY <1>2, <1>4, FramesType
    <3>3. f = Handed(o) + Len(inbound[s]) + 1
      BY <3>1, <3>2
    <3> HIDE DEF f
    <3>4. Continues(inbound'[s], Handed(o)) /\ Frames(inbound'[s]) = Len(inbound[s]) + 1
      BY <1>1, <1>2, <1>4, <3>1, <3>3, PutFrame
    <3>5. Handed(o) + Frames(inbound'[s]) = f
      BY <3>1, <3>2, <3>3, <3>4
    <3> QED
      BY <3>4, <3>5
  <2>5. Handed(o)' = Handed(o)
    BY <1>1 DEF Handed
  <2> HIDE DEF f
  <2>6. Counts(sent'[o]) /\ Counts(got'[o]) /\ Continues(outbound'[o], Len(got'[o]))
    BY <1>0, <1>1, <1>2 DEF InOrder
  <2>7. Len(got'[o]) + Frames(outbound'[o]) <= Len(sent'[s])
    BY <1>1, <1>3, <2>3
  <2>8. Linked(o)' => /\ Continues(inbound'[s], Handed(o)')
                      /\ Handed(o)' + Frames(inbound'[s]) <= Len(sent'[s])
                      /\ Handed(o)' + Frames(inbound'[s]) = Len(sent'[s])
    BY <1>2, <1>3, <2>1, <2>4, <2>5
  <2> QED
    BY <1>0, <2>6, <2>7, <2>8 DEF InOrder
<1>9. Closings(s)'
  <2>1. \A i \in 1 .. Len(inbound'[s]) : inbound'[s][i] # Close
    BY <1>1, <1>2, <1>4
  <2>2. conn[s] # "none"
    BY <1>1 DEF BridgeInv, Phases
  <2> QED
    BY <1>0, <1>1, <1>2, <2>1, <2>2 DEF Closings
<1>10. Closings(o)'
  BY <1>0, <1>1, SideFacts DEF Closings
<1>11. ClosedForAReason(s)'
  BY <1>0, <1>1, SideFacts DEF ClosedForAReason, Finished, Coming, o
<1>12. ClosedForAReason(o)'
  <2>1. ~Finished(o)
    BY <1>0, <1>1 DEF Finished
  <2> QED
    BY <1>0, <1>1, <2>1, SideFacts DEF ClosedForAReason
<1> QED
  BY <1>5, <1>6, <1>7, <1>8, <1>9, <1>10, <1>11, <1>12, BothSides DEF o

LEMMA LeaveInv ==
  ASSUME BridgeInv, NEW s \in Sides, Leave(s)
  PROVE  BridgeInv'
<1> DEFINE o == Other(s)
<1>0. o \in Sides /\ o # s /\ Other(o) = s /\ (\A t \in Sides : t = s \/ t = o)
  BY TwoSides
<1> HIDE DEF o
<1>1. /\ end[s] = "open" /\ end'[s] = "closing" /\ end'[o] = end[o]
      /\ UNCHANGED <<sent, got, outbound, conn, loop, session>>
      /\ inbound'[s] = Append(inbound[s], Close) /\ inbound'[o] = inbound[o]
  BY <1>0 DEF Leave, bridge, BridgeInv, Typed
<1>2. /\ inbound[s] \in Seq(Nat) /\ Close \in Nat
      /\ Closings(s) /\ InOrder(s) /\ InOrder(o)
  BY <1>0, SideFacts DEF Close
<1>3. \A i \in 1 .. Len(inbound[s]) : inbound[s][i] # Close
  BY <1>1, <1>2 DEF Closings
<1>4. conn[s] # "none"
  BY <1>1 DEF BridgeInv, Phases
<1>5. Typed'
  <2>1. inbound' \in [Sides -> Seq(Nat)]
    <3>1. Append(inbound[s], Close) \in Seq(Nat)
      BY <1>2
    <3> QED
      BY <3>1 DEF Leave, BridgeInv, Typed
  <2> QED
    BY <1>1, <2>1 DEF Leave, BridgeInv, Typed
<1>6. Phases'
  <2>1. \A t \in Sides : end'[t] = "none" <=> conn'[t] = "none"
    BY <1>0, <1>1, <1>4 DEF BridgeInv, Phases
  <2> QED
    BY <1>1, <2>1 DEF Phases, BridgeInv
<1>7. InOrder(s)'
  <2>1. (Linked(s)' <=> Linked(s)) /\ Handed(s)' = Handed(s)
    BY <1>1 DEF Linked, Coming, Handed
  <2> QED
    BY <1>0, <1>1, <1>2, <2>1 DEF InOrder, o
<1>8. InOrder(o)'
  <2>1. (Linked(o)' <=> Linked(o)) /\ Handed(o)' = Handed(o)
    BY <1>0, <1>1 DEF Linked, Coming, Handed
  <2>2. ASSUME Linked(o)
        PROVE  /\ Continues(inbound'[s], Handed(o))
               /\ Handed(o) + Frames(inbound'[s]) = Len(sent[s])
               /\ Handed(o) + Frames(inbound'[s]) <= Len(sent[s])
    <3>1. /\ Handed(o) \in Nat /\ Continues(inbound[s], Handed(o))
          /\ Handed(o) + Frames(inbound[s]) = Len(sent[s])
          /\ Handed(o) + Frames(inbound[s]) <= Len(sent[s])
      BY <1>0, <1>1, <2>2, LinkFacts, SideFacts DEF o
    <3> QED
      BY <1>1, <1>2, <1>3, <3>1, PutClose
  <2> QED
    BY <1>0, <1>1, <1>2, <2>1, <2>2 DEF InOrder
<1>9. Closings(s)'
  BY <1>0, <1>1, <1>2, <1>4 DEF Closings
<1>10. Closings(o)'
  BY <1>0, <1>1, SideFacts DEF Closings
<1>11. ClosedForAReason(s)'
  BY <1>1 DEF ClosedForAReason
<1>12. ClosedForAReason(o)'
  <2>1. ~Finished(o)
    BY <1>0, <1>1 DEF Finished
  <2> QED
    BY <1>0, <1>1, <2>1, SideFacts DEF ClosedForAReason
<1> QED
  BY <1>5, <1>6, <1>7, <1>8, <1>9, <1>10, <1>11, <1>12, BothSides DEF o

LEMMA ReceiveInv ==
  ASSUME BridgeInv, NEW s \in Sides, Receive(s)
  PROVE  BridgeInv'
<1> DEFINE o == Other(s)
           q == outbound[s]
<1>0. o \in Sides /\ o # s /\ Other(o) = s /\ (\A t \in Sides : t = s \/ t = o)
  BY TwoSides
<1> HIDE DEF o
<1>1. /\ end[s] \in {"open", "closing"} /\ q # <<>>
      /\ UNCHANGED <<sent, inbound, conn, loop, session>>
      /\ outbound'[s] = Tail(q) /\ outbound'[o] = outbound[o] /\ got'[o] = got[o] /\ end'[o] = end[o]
      /\ \/ /\ Head(q) = Close /\ got'[s] = got[s]
            /\ end'[s] = IF end[s] = "open" THEN "closed" ELSE "left"
         \/ Head(q) # Close /\ got'[s] = Append(got[s], Head(q)) /\ end'[s] = end[s]
  BY <1>0 DEF Receive, bridge, BridgeInv, Typed
<1>2. /\ q \in Seq(Nat) /\ got[s] \in Seq(Nat) /\ Len(got[s]) \in Nat /\ Len(q) \in Nat
      /\ Continues(q, Len(got[s])) /\ Frames(q) \in Nat
      /\ Closings(s) /\ InOrder(s) /\ ClosedForAReason(s)
  BY SideFacts DEF InOrder
<1> HIDE DEF q
<1>3. Tail(q) \in Seq(Nat) /\ Head(q) \in Nat /\ Len(Tail(q)) = Len(q) - 1
  BY <1>1, <1>2
<1>4. Typed'
  <2>1. Append(got[s], Head(q)) \in Seq(Nat)
    BY <1>2, <1>3
  <2> QED
    BY <1>1, <1>3, <2>1 DEF Receive, bridge, BridgeInv, Typed, q
<1>5. conn[s] # "none" /\ end'[s] # "none"
  BY <1>1 DEF BridgeInv, Phases
<1>6. Phases'
  <2>1. \A t \in Sides : end'[t] = "none" <=> conn'[t] = "none"
    BY <1>0, <1>1, <1>5 DEF BridgeInv, Phases
  <2> QED
    BY <1>1, <2>1 DEF Phases, BridgeInv
\* Counted together, what was received and what is under way stay the same.
<1>7. /\ Counts(got'[s]) /\ Continues(outbound'[s], Len(got'[s]))
      /\ Len(got'[s]) + Frames(outbound'[s]) = Len(got[s]) + Frames(q)
      /\ Head(q) # Close => Handed(s)' = Handed(s)
  <2>1. CASE Head(q) = Close
    <3>1. Frames(q) = 0 /\ Tail(q) = <<>>
      BY <1>1, <1>2, <2>1, TakeClose
    <3> QED
      BY <1>1, <1>2, <2>1, <3>1, EmptyQueue DEF InOrder
  <2>2. CASE Head(q) # Close
    <3>1. Head(q) = Len(got[s]) + 1 /\ Continues(Tail(q), Len(got[s]) + 1) /\ Frames(q) = Frames(Tail(q)) + 1
      BY <1>1, <1>2, <2>2, TakeFrame
    <3> DEFINE g == Append(got[s], Head(q))
               m == Len(got[s])
               r == Tail(q)
    <3>2. /\ Len(g) = m + 1 /\ g[m + 1] = m + 1
          /\ \A i \in 1 .. m : g[i] = got[s][i] /\ got[s][i] = i
      BY <1>2, <1>3, <3>1 DEF InOrder, Counts
    <3>3. got'[s] = g /\ outbound'[s] = r /\ m \in Nat /\ Len(q) \in Nat /\ Len(r) = Len(q) - 1
      BY <1>1, <1>2, <1>3, <2>2
    <3>4. Frames(r) \in Nat /\ Frames(q) = Frames(r) + 1
      BY <1>3, <3>1, FramesType
    <3>5. Handed(s)' = Len(got'[s]) + Len(outbound'[s]) /\ Handed(s) = m + Len(q)
      BY DEF Handed, q
    <3> HIDE DEF g, m, r
    <3>6. Counts(g)
      <4>1. \A i \in 1 .. Len(g) : i = m + 1 \/ i \in 1 .. m
        BY <3>2, <3>3
      <4> QED
        BY <3>2, <4>1 DEF Counts
    <3>7. Len(g) + Frames(r) = m + Frames(q)
      BY <3>2, <3>3, <3>4
    <3>8. Handed(s)' = Handed(s)
      BY <3>2, <3>3, <3>5
    <3> QED
      BY <3>1, <3>2, <3>3, <3>6, <3>7, <3>8 DEF m, r
  <2> QED
    BY <2>1, <2>2
<1>8. Head(q) = Close => conn[s] = "closed"
  <2>1. Head(q) = q[1] /\ 1 \in 1 .. Len(q)
    BY <1>1, <1>2
  <2> QED
    BY <1>2, <2>1 DEF Closings, q
<1>9. InOrder(s)'
  <2>1. Linked(s)' => Linked(s) /\ Head(q) # Close
    BY <1>1, <1>5, <1>8 DEF Linked, Coming
  <2>2. Len(got'[s]) + Frames(outbound'[s]) <= Len(sent[o])
    BY <1>2, <1>7 DEF InOrder, o, q
  <2> QED
    BY <1>0, <1>1, <1>2, <1>7, <2>1, <2>2 DEF InOrder, o
<1>10. InOrder(o)'
  <2>1. Linked(o)' = Linked(o) /\ Handed(o)' = Handed(o)
    BY <1>1 DEF Linked, Coming, Handed
  <2>2. end'[s] # "cut" /\ end[s] # "cut"
    BY <1>1
  <2>3. InOrder(o)
    BY <1>0, SideFacts
  <2> QED
    BY <1>0, <1>1, <2>1, <2>2, <2>3 DEF InOrder
<1>11. Closings(s)'
  <2>1. \A i \in 1 .. Len(Tail(q)) : i + 1 \in 1 .. Len(q) /\ Tail(q)[i] = q[i + 1]
    BY <1>1, <1>2, <1>3
  <2>2. (\E i \in 1 .. Len(outbound'[s]) : outbound'[s][i] = Close) => conn'[s] = "closed"
    BY <1>1, <1>2, <2>1 DEF Closings, q
  <2>3. Head(q) = Close => outbound'[s] = <<>>
    BY <1>1, <1>2, TakeClose
  <2>4. (\E i \in 1 .. Len(inbound'[s]) : inbound'[s][i] = Close) => end'[s] \in {"closing", "left", "cut"}
    BY <1>1, <1>2 DEF Closings
  <2> QED
    BY <1>1, <1>2, <1>5, <1>8, <2>2, <2>3, <2>4 DEF Closings
<1>12. Closings(o)'
  BY <1>0, <1>1, SideFacts DEF Closings
<1>13. ClosedForAReason(s)'
  <2>1. Finished(s) => Finished(s)'
    BY <1>0, <1>1, <1>5, <1>7 DEF Finished, Coming, o, q
  <2>2. end'[s] \in {"open", "closed"} => end[s] = "open"
    BY <1>1
  <2>3. end'[s] = "open" => end[s] = "open"
    BY <1>1
  <2> QED
    BY <1>1, <1>2, <2>1, <2>2, <2>3 DEF ClosedForAReason
<1>14. ClosedForAReason(o)'
  <2>1. Finished(o) => Finished(o)' \/ end[s] = "open"
    BY <1>0, <1>1 DEF Finished, Coming
  <2>2. end[s] = "open" => ~Finished(o)
    BY <1>0 DEF Finished
  <2> QED
    BY <1>0, <1>1, <2>1, <2>2, SideFacts DEF ClosedForAReason
<1> QED
  BY <1>4, <1>6, <1>9, <1>10, <1>11, <1>12, <1>13, <1>14, BothSides DEF o

LEMMA BreakInv ==
  ASSUME BridgeInv, NEW s \in Sides, Break(s)
  PROVE  BridgeInv'
<1> DEFINE o == Other(s)
<1>0. o \in Sides /\ o # s /\ Other(o) = s /\ (\A t \in Sides : t = s \/ t = o)
  BY TwoSides
<1> HIDE DEF o
<1>1. PICK k \in 0 .. Len(inbound[s]) : inbound' = [inbound EXCEPT ![s] = SubSeq(@, 1, k)]
  BY DEF Break
<1> DEFINE p == SubSeq(inbound[s], 1, k)
<1>2. /\ end[s] \in {"open", "closing"} /\ end'[s] = "cut" /\ end'[o] = end[o]
      /\ UNCHANGED <<sent, got, conn, loop, session>>
      /\ outbound'[s] = <<>> /\ outbound'[o] = outbound[o]
      /\ inbound'[s] = p /\ inbound'[o] = inbound[o]
  BY <1>0, <1>1 DEF Break, bridge, BridgeInv, Typed
<1>3. inbound[s] \in Seq(Nat) /\ p \in Seq(Nat)
  BY SideFacts
<1>4. Typed'
  <2>1. outbound' = [outbound EXCEPT ![s] = <<>>] /\ end' = [end EXCEPT ![s] = "cut"]
    BY DEF Break
  <2> QED
    BY <1>1, <1>2, <1>3, <2>1, EmptyQueue DEF BridgeInv, Typed
<1> HIDE DEF p
<1>5. conn[s] # "none"
  BY <1>2 DEF BridgeInv, Phases
<1>6. Phases'
  <2>1. \A t \in Sides : end'[t] = "none" <=> conn'[t] = "none"
    BY <1>0, <1>2, <1>5 DEF BridgeInv, Phases
  <2> QED
    BY <1>2, <2>1 DEF Phases, BridgeInv
<1>7. InOrder(s)'
  <2>1. ~Linked(s)'
    BY <1>2, <1>5 DEF Linked, Coming
  <2>2. Len(got[s]) + 0 <= Len(sent[o])
    BY SideFacts, <1>0 DEF InOrder, o
  <2> QED
    BY <1>0, <1>2, <2>1, <2>2, SideFacts, EmptyQueue DEF InOrder, o
<1>8. InOrder(o)'
  <2>1. Linked(o)' = Linked(o) /\ Handed(o)' = Handed(o) /\ InOrder(o)
    BY <1>0, <1>2, SideFacts DEF Linked, Coming, Handed
  <2>2. ASSUME Linked(o)
        PROVE  Continues(p, Handed(o)) /\ Handed(o) + Frames(p) <= Len(sent[s])
    <3>1. /\ Handed(o) \in Nat /\ Continues(inbound[s], Handed(o)) /\ Frames(inbound[s]) \in Nat
          /\ Handed(o) + Frames(inbound[s]) <= Len(sent[s]) /\ Len(sent[s]) \in Nat
      BY <1>0, <2>2, LinkFacts, SideFacts DEF o
    <3>2. Continues(p, Handed(o)) /\ Frames(p) <= Frames(inbound[s])
      BY <1>3, <3>1, CutShort DEF p
    <3>3. Frames(p) \in Nat
      BY <1>3, FramesType
    <3> QED
      BY <3>1, <3>2, <3>3
  <2> QED
    BY <1>0, <1>2, <2>1, <2>2 DEF InOrder
<1>9. Closings(s)'
  BY <1>0, <1>2, <1>5, SideFacts, EmptyQueue DEF Closings
<1>10. Closings(o)'
  BY <1>0, <1>2, SideFacts DEF Closings
<1>11. ClosedForAReason(s)'
  BY <1>2 DEF ClosedForAReason
<1>12. ClosedForAReason(o)'
  BY <1>0, <1>2 DEF ClosedForAReason, Finished
<1> QED
  BY <1>4, <1>6, <1>7, <1>8, <1>9, <1>10, <1>11, <1>12, BothSides DEF o

LEMMA ReadInv ==
  ASSUME BridgeInv, NEW s \in Sides, Read(s)
  PROVE  BridgeInv'
<1> DEFINE o == Other(s)
           q == inbound[s]
<1>0. o \in Sides /\ o # s /\ Other(o) = s /\ (\A t \in Sides : t = s \/ t = o)
  BY TwoSides
<1> HIDE DEF o
<1>1. /\ conn[s] = "open" /\ loop[s] = "reading" /\ q # <<>> /\ Head(q) # Close
      /\ UNCHANGED <<end, sent, got, conn, loop, session>>
      /\ inbound'[s] = Tail(q) /\ inbound'[o] = inbound[o]
  BY <1>0 DEF Read, Readable, ends, bridge, BridgeInv, Typed
<1>2. /\ \/ outbound' = outbound /\ ~Linked(o)
         \/ /\ outbound' = [outbound EXCEPT ![o] = Append(@, Head(q))]
            /\ conn[o] = "open" /\ end[o] # "cut"
  <2>1. CASE Knows(s)
    <3>1. Writes(o, Head(q))
      BY <2>1 DEF Read, o
    <3>2. ~Coming(o)
      BY <1>0, <1>1, <2>1 DEF Coming, Knows, BridgeInv, Phases, Sides, o, Other
    <3> QED
      BY <3>1, <3>2 DEF Writes, Linked
  <2>2. CASE ~Knows(s)
    <3>1. outbound' = outbound
      BY <2>2 DEF Read
    <3>2. ~Linked(o)
      BY <1>0, <1>1, <2>2 DEF Linked, Coming, Knows, BridgeInv, Phases, o, Other
    <3> QED
      BY <3>1, <3>2
  <2> QED
    BY <2>1, <2>2
<1>3. q \in Seq(Nat) /\ Head(q) \in Nat /\ Tail(q) \in Seq(Nat) /\ Len(Tail(q)) = Len(q) - 1 /\ Len(q) \in Nat
  BY <1>1, SideFacts
<1>4. Typed'
  <2>1. Append(outbound[o], Head(q)) \in Seq(Nat)
    BY <1>0, <1>3, SideFacts
  <2>2. outbound' \in [Sides -> Seq(Nat)]
    BY <1>2, <2>1 DEF BridgeInv, Typed
  <2>3. inbound' \in [Sides -> Seq(Nat)]
    BY <1>3 DEF Read, BridgeInv, Typed
  <2> QED
    BY <1>1, <2>2, <2>3 DEF BridgeInv, Typed
<1>5. Phases'
  BY <1>1 DEF Phases, BridgeInv
<1>6. outbound'[s] = outbound[s] /\ (outbound'[o] = outbound[o] \/ outbound'[o] = Append(outbound[o], Head(q)))
  BY <1>0, <1>2 DEF BridgeInv, Typed
<1>7. /\ sent[o] \in Seq(Nat) /\ Len(got[o]) \in Nat /\ outbound[o] \in Seq(Nat) /\ Len(outbound[o]) \in Nat
      /\ InOrder(s) /\ InOrder(o) /\ Closings(s) /\ Closings(o) /\ ClosedForAReason(s) /\ ClosedForAReason(o)
  BY <1>0, SideFacts
<1>8. InOrder(s)'
  <2>1. Linked(s)' = Linked(s) /\ Handed(s)' = Handed(s)
    BY <1>1, <1>6 DEF Linked, Coming, Handed
  <2> QED
    BY <1>1, <1>6, <1>7, <2>1 DEF InOrder, o
<1>9. Linked(o)' = Linked(o)
  BY <1>1 DEF Linked, Coming
\* The frame goes from one queue to the other.
<1>10. CASE outbound'[o] = outbound[o] /\ ~Linked(o)
  <2>1. InOrder(o)'
    BY <1>0, <1>1, <1>7, <1>9, <1>10 DEF InOrder
  <2>2. Closings(o)'
    BY <1>1, <1>0, <1>7, <1>10 DEF Closings
  <2>3. ClosedForAReason(o)'
    BY <1>1, <1>7, <1>10 DEF ClosedForAReason, Finished, Coming
  <2>4. Closings(s)'
    <3>1. \A i \in 1 .. Len(Tail(q)) : i + 1 \in 1 .. Len(q) /\ Tail(q)[i] = q[i + 1]
      BY <1>1, <1>3
    <3> QED
      BY <1>1, <1>6, <1>7, <3>1 DEF Closings
  <2>5. ClosedForAReason(s)'
    BY <1>1, <1>6, <1>7 DEF ClosedForAReason, Finished, Coming
  <2> QED
    BY <1>4, <1>5, <1>8, <2>1, <2>2, <2>3, <2>4, <2>5, BothSides DEF o
<1>11. CASE outbound'[o] = Append(outbound[o], Head(q)) /\ conn[o] = "open" /\ end[o] # "cut"
  <2>1. Linked(o) /\ (\A i \in 1 .. Len(outbound[o]) : outbound[o][i] # Close)
    BY <1>7, <1>11 DEF Linked, Closings
  <2>2. /\ Continues(q, Handed(o)) /\ Handed(o) \in Nat
        /\ Handed(o) + Frames(q) <= Len(sent[s]) /\ (end[s] # "cut" => Handed(o) + Frames(q) = Len(sent[s]))
    BY <1>0, <2>1, LinkFacts, SideFacts DEF o
  <2> HIDE DEF q
  <2>3. /\ Head(q) = Handed(o) + 1 /\ Continues(Tail(q), Handed(o) + 1) /\ Frames(q) = Frames(Tail(q)) + 1
    BY <1>1, <1>3, <2>2, TakeFrame
  <2>4. Handed(o) = Len(got[o]) + Len(outbound[o])
    BY DEF Handed
  <2>5. Continues(outbound[o], Len(got[o]))
    BY <1>7 DEF InOrder
  <2> DEFINE p == Append(outbound[o], Head(q))
             m == Len(got[o])
             n == Len(outbound[o])
  <2>6. m \in Nat /\ n \in Nat /\ Handed(o) = m + n /\ Head(q) = m + n + 1
    BY <1>7, <2>3, <2>4
  <2>7. /\ p \in Seq(Nat) /\ Len(p) = n + 1 /\ Continues(p, m)
        /\ (\A i \in 1 .. Len(p) : p[i] # Close) /\ Frames(p) = n + 1 /\ Frames(outbound[o]) = n
    BY <1>7, <2>1, <2>5, <2>6, PutFrame
  <2>8. Frames(Tail(q)) \in Nat /\ Len(sent[s]) \in Nat
    BY <1>3, FramesType, SideFacts
  <2>9. Handed(o)' = Len(got'[o]) + Len(outbound'[o])
    BY DEF Handed
  <2>10. got'[o] = got[o] /\ outbound'[o] = p
    BY <1>1, <1>11
  <2> HIDE DEF p, m, n
  <2>11. Handed(o)' = Handed(o) + 1
    BY <2>6, <2>7, <2>9, <2>10 DEF m
  <2>12. /\ Handed(o)' + Frames(Tail(q)) <= Len(sent[s])
         /\ end[s] # "cut" => Handed(o)' + Frames(Tail(q)) = Len(sent[s])
    BY <2>2, <2>3, <2>8, <2>11
  <2>13. m + Frames(p) <= Len(sent[s])
    BY <2>2, <2>3, <2>6, <2>7, <2>8
  <2>14. InOrder(o)'
    <3>1. Counts(sent'[o]) /\ Counts(got'[o]) /\ Continues(outbound'[o], Len(got'[o]))
      BY <1>1, <1>7, <2>7, <2>10 DEF InOrder, m
    <3>2. Len(got'[o]) + Frames(outbound'[o]) <= Len(sent'[s])
      BY <1>1, <2>10, <2>13 DEF m
    <3>3. Continues(inbound'[s], Handed(o)')
      BY <1>1, <2>3, <2>11
    <3> QED
      BY <1>0, <1>1, <2>12, <3>1, <3>2, <3>3 DEF InOrder
  <2>15. Closings(o)'
    BY <1>0, <1>1, <1>7, <1>11, <2>7, <2>10 DEF Closings, BridgeInv, Phases
  <2>16. ClosedForAReason(o)'
    <3>1. ~Finished(o) \/ end[s] \in {"cut", "none"}
      <4>1. Frames(q) # 0 /\ Handed(o) = m + Frames(outbound[o])
        BY <2>3, <2>6, <2>7, <2>8
      <4>2. end[s] # "cut" => m + Frames(outbound[o]) # Len(sent[s])
        BY <2>2, <2>3, <2>8, <4>1
      <4> QED
        BY <1>0, <4>2 DEF Finished, m
    <3>2. Finished(o) => Finished(o)'
      BY <1>0, <1>1, <3>1 DEF Finished, Coming
    <3> QED
      BY <1>0, <1>1, <1>7, <3>2 DEF ClosedForAReason
  <2>17. Closings(s)'
    <3>1. \A i \in 1 .. Len(Tail(q)) : i + 1 \in 1 .. Len(q) /\ Tail(q)[i] = q[i + 1]
      BY <1>1, <1>3
    <3> QED
      BY <1>1, <1>6, <1>7, <3>1 DEF Closings, q
  <2>18. ClosedForAReason(s)'
    BY <1>1, <1>6, <1>7 DEF ClosedForAReason, Finished, Coming
  <2> QED
    BY <1>4, <1>5, <1>8, <2>14, <2>15, <2>16, <2>17, <2>18, BothSides DEF o
<1>12. (outbound'[o] = outbound[o] /\ ~Linked(o)) \/ (outbound'[o] = Append(outbound[o], Head(q)) /\ conn[o] = "open" /\ end[o] # "cut")
  BY <1>0, <1>2 DEF BridgeInv, Typed
<1> QED
  BY <1>10, <1>11, <1>12

\* What a step that writes at most a close frame, on the connection of t, does to the
\* connections and the queues.
Closes(t) ==
  /\ UNCHANGED <<end, sent, got, inbound, session>>
  /\ conn'[Other(t)] = conn[Other(t)] /\ outbound'[Other(t)] = outbound[Other(t)]
  /\ conn'[t] = conn[t] \/ (conn[t] = "open" /\ conn'[t] = "closed")
  /\ \/ outbound'[t] = outbound[t]
     \/ outbound'[t] = Append(outbound[t], Close) /\ conn[t] = "open" /\ conn'[t] = "closed"

LEMMA WritesCloseEffect ==
  ASSUME BridgeInv, NEW t \in Sides, WritesClose(t), UNCHANGED <<end, sent, got, inbound, session>>
  PROVE  Closes(t) /\ conn'[t] # "open" /\ outbound' \in [Sides -> Seq(Nat)]
<1>1. Append(outbound[t], Close) \in Seq(Nat)
  BY SideFacts DEF Close
<1> QED
  BY <1>1, TwoSides DEF WritesClose, Writes, Closes, BridgeInv, Typed

LEMMA ClosesOK ==
  ASSUME BridgeInv, NEW t \in Sides, Closes(t),
         \A x \in Sides : Coming(x)' => Coming(x),
         \A x \in Sides :
           /\ loop'[x] \in {"closing", "ended"} => conn'[x] # "open"
           /\ conn'[x] = "closed" /\ loop'[x] = "reading" => loop'[Other(x)] = "ended" \/ conn'["target"] = "none"
  PROVE  \A x \in Sides :
           InOrder(x)' /\ Closings(x)' /\ (Finished(x) => Finished(x)')
<1>0. UNCHANGED <<end, sent, got, inbound>>
  BY DEF Closes
<1>1. ASSUME NEW x \in Sides
      PROVE  /\ conn'[x] = conn[x] \/ (conn[x] = "open" /\ conn'[x] = "closed")
             /\ \/ outbound'[x] = outbound[x]
                \/ outbound'[x] = Append(outbound[x], Close) /\ conn[x] = "open" /\ conn'[x] = "closed"
  BY TwoSides DEF Closes
<1>2. ASSUME NEW x \in Sides PROVE Frames(outbound'[x]) = Frames(outbound[x]) /\ Continues(outbound'[x], Len(got[x]))
  <2>1. InOrder(x) /\ Closings(x) /\ outbound[x] \in Seq(Nat) /\ Len(got[x]) \in Nat
    BY SideFacts
  <2>2. CASE outbound'[x] = outbound[x]
    BY <2>1, <2>2 DEF InOrder
  <2>3. CASE outbound'[x] = Append(outbound[x], Close) /\ conn[x] = "open" /\ conn'[x] = "closed"
    <3>1. \A i \in 1 .. Len(outbound[x]) : outbound[x][i] # Close
      BY <2>1, <2>3 DEF Closings
    <3>2. Continues(outbound[x], Len(got[x]))
      BY <2>1 DEF InOrder
    <3> QED
      BY <2>1, <2>3, <3>1, <3>2, PutClose
  <2> QED
    BY <1>1, <2>2, <2>3
<1>3. ASSUME NEW x \in Sides PROVE InOrder(x)'
  <2>1. Linked(x)' => Linked(x) /\ Handed(x)' = Handed(x)
    BY <1>0, <1>1 DEF Linked, Handed, Coming
  <2> QED
    BY <1>0, <1>2, <2>1, SideFacts DEF InOrder
<1>4. ASSUME NEW x \in Sides PROVE Closings(x)'
  <2>1. Closings(x)
    BY SideFacts
  <2>2. conn'[x] = "none" => conn[x] = "none" /\ outbound'[x] = outbound[x]
    BY <1>1
  <2>3. (\E i \in 1 .. Len(outbound'[x]) : outbound'[x][i] = Close) => conn'[x] = "closed"
    BY <1>1, <2>1 DEF Closings
  <2>4. end[x] = "closed" => conn'[x] = "closed" /\ outbound'[x] = <<>>
    BY <1>1, <2>1 DEF Closings
  <2> QED
    BY <1>0, <2>1, <2>2, <2>3, <2>4 DEF Closings
<1>5. ASSUME NEW x \in Sides, Finished(x) PROVE Finished(x)'
  <2>1. Other(x) \in Sides
    BY TwoSides
  <2> QED
    BY <1>0, <1>2, <1>5, <2>1 DEF Finished
<1> QED
  BY <1>3, <1>4, <1>5

LEMMA ReadEndInv ==
  ASSUME BridgeInv, NEW s \in Sides, ReadEnd(s)
  PROVE  BridgeInv'
<1> DEFINE o == Other(s)
<1>0. o \in Sides /\ o # s /\ Other(o) = s /\ (\A t \in Sides : t = s \/ t = o)
  BY TwoSides
<1> HIDE DEF o
<1>1. /\ loop[s] = "reading" /\ loop'[s] = "closing" /\ loop'[o] = loop[o]
      /\ UNCHANGED <<end, sent, got, inbound, session>>
  BY <1>0 DEF ReadEnd, ends, BridgeInv, Typed
<1>2. /\ Closes(s) /\ conn'[s] # "open" /\ outbound' \in [Sides -> Seq(Nat)]
      /\ \/ conn[s] = "closed"
         \/ conn[s] = "open" /\ end[s] = "cut"
         \/ inbound[s] # <<>> /\ Head(inbound[s]) = Close
  <2>1. CASE conn[s] = "closed" /\ UNCHANGED <<outbound, conn>>
    BY <1>1, <2>1 DEF Closes, BridgeInv, Typed
  <2>2. CASE conn[s] = "open" /\ end[s] = "cut" /\ UNCHANGED outbound /\ conn' = [conn EXCEPT ![s] = "closed"]
    BY <1>0, <1>1, <2>2 DEF Closes, BridgeInv, Typed, o
  <2>3. CASE Readable(s) /\ Head(inbound[s]) = Close /\ WritesClose(s)
    BY <1>1, <2>3, WritesCloseEffect DEF Readable
  <2> QED
    BY <2>1, <2>2, <2>3 DEF ReadEnd
<1>3. conn'[o] = conn[o] /\ (conn[s] = "none" <=> conn'[s] = "none")
  BY <1>2 DEF Closes, o
<1>4. /\ Closings(s) /\ Closings(o) /\ ClosedForAReason(s) /\ ClosedForAReason(o)
      /\ inbound[s] \in Seq(Nat)
  BY <1>0, SideFacts
<1>5. Typed'
  <2>1. conn' \in [Sides -> {"none", "open", "closed"}]
    <3>1. conn' = conn \/ conn' = [conn EXCEPT ![s] = "closed"] \/ WritesClose(s)
      BY DEF ReadEnd
    <3> QED
      BY <3>1 DEF WritesClose, BridgeInv, Typed
  <2> QED
    BY <1>1, <1>2, <2>1 DEF ReadEnd, BridgeInv, Typed
<1>6. Phases'
  <2>1. \A t \in Sides : conn'[t] = "none" <=> conn[t] = "none"
    BY <1>0, <1>3
  <2>2. "client" \in Sides /\ "target" \in Sides
    BY DEF Sides
  <2>3. \A t \in Sides : loop'[t] = loop[t] \/ (loop[t] = "reading" /\ loop'[t] = "closing")
    BY <1>0, <1>1
  <2>4. loop'["client"] \in {"off", "opening", "storing"} => loop[s] = "reading" /\ s = "target"
    BY <1>1, <2>2, <1>0
  <2>5. s = "target" => session
    BY <1>1 DEF BridgeInv, Phases
  <2> QED
    BY <1>0, <1>1, <2>1, <2>2, <2>3, <2>4, <2>5 DEF Phases, BridgeInv
<1>7. \A x \in Sides : Coming(x)' => Coming(x)
  BY <1>0, <1>1, <1>3 DEF Coming, Sides, BridgeInv, Phases
<1>8. \A x \in Sides :
        /\ loop'[x] \in {"closing", "ended"} => conn'[x] # "open"
        /\ conn'[x] = "closed" /\ loop'[x] = "reading" => loop'[Other(x)] = "ended" \/ conn'["target"] = "none"
  <2>1. conn["target"] = "none" => conn'["target"] = "none"
    BY <1>0, <1>3 DEF Sides
  <2> QED
    BY <1>0, <1>1, <1>2, <1>3, <1>4, <2>1 DEF Closings
<1>9. \A x \in Sides : InOrder(x)' /\ Closings(x)' /\ (Finished(x) => Finished(x)')
  BY <1>2, <1>7, <1>8, ClosesOK
<1>10. Head(inbound[s]) = Close /\ inbound[s] # <<>> => end[s] \in {"closing", "left", "cut"}
  <2>1. inbound[s] # <<>> => Head(inbound[s]) = inbound[s][1] /\ 1 \in 1 .. Len(inbound[s])
    BY <1>4
  <2> QED
    BY <1>4, <2>1 DEF Closings
<1>11. ClosedForAReason(s)'
  <2>1. conn'[s] = "closed" /\ end[s] \in {"open", "closed"} => Finished(s)
    BY <1>2, <1>4, <1>10 DEF ClosedForAReason
  <2> QED
    BY <1>1, <1>2, <1>9, <2>1 DEF ClosedForAReason
<1>12. ASSUME conn[o] = "open", end[o] = "open" PROVE Finished(o)
  <2>1. CASE conn[s] = "closed"
    <3>1. loop[o] = "ended" \/ conn["target"] = "none"
      BY <1>1, <1>4, <2>1 DEF Closings, o
    <3> QED
      BY <1>0, <1>4, <1>12, <2>1, <3>1 DEF Closings, Sides
  <2>2. CASE end[s] = "cut"
    BY <1>0, <2>2 DEF Finished
  <2>3. CASE inbound[s] # <<>> /\ Head(inbound[s]) = Close /\ end[s] # "cut"
    <3>1. Linked(o)
      BY <1>12 DEF Linked
    <3>2. Continues(inbound[s], Handed(o)) /\ Handed(o) \in Nat /\ Handed(o) + Frames(inbound[s]) = Len(sent[s])
      BY <1>0, <2>3, <3>1, LinkFacts, SideFacts DEF o
    <3>3. Frames(inbound[s]) = 0
      BY <1>4, <2>3, <3>2, TakeClose
    <3>4. Handed(o) = Len(sent[s])
      BY <3>2, <3>3
    <3>5. Handed(o) = Len(got[o]) + Frames(outbound[o])
      BY <1>0, <1>12, SideFacts DEF Handed
    <3> QED
      BY <1>0, <1>10, <2>3, <3>4, <3>5 DEF Finished
  <2> QED
    BY <1>2, <2>1, <2>2, <2>3
<1>13. ClosedForAReason(o)'
  BY <1>0, <1>1, <1>3, <1>4, <1>9, <1>12 DEF ClosedForAReason
<1> QED
  BY <1>0, <1>5, <1>6, <1>9, <1>11, <1>13, BothSides DEF o

LEMMA OnCloseInv ==
  ASSUME BridgeInv, NEW s \in Sides, OnClose(s)
  PROVE  BridgeInv'
<1> DEFINE o == Other(s)
<1>0. o \in Sides /\ o # s /\ Other(o) = s /\ (\A t \in Sides : t = s \/ t = o)
  BY TwoSides
<1> HIDE DEF o
<1>1. /\ loop[s] = "closing" /\ loop'[s] = "ended" /\ loop'[o] = loop[o]
      /\ UNCHANGED <<end, sent, got, inbound, session>>
  BY <1>0 DEF OnClose, ends, BridgeInv, Typed
<1>2. /\ Closes(o) /\ conn'[o] # "open" /\ outbound' \in [Sides -> Seq(Nat)]
      /\ conn' \in [Sides -> {"none", "open", "closed"}]
  <2>1. CASE Knows(s)
    <3>1. WritesClose(o)
      BY <2>1 DEF OnClose, o
    <3> QED
      BY <1>0, <1>1, <3>1, WritesCloseEffect DEF WritesClose, BridgeInv, Typed
  <2>2. CASE ~Knows(s)
    <3>1. s = "client" /\ ~session
      BY <2>2 DEF Knows
    <3>2. o = "target" /\ conn[o] = "none"
      BY <1>1, <3>1 DEF BridgeInv, Phases, o, Other
    <3>3. UNCHANGED <<outbound, conn>>
      BY <2>2 DEF OnClose
    <3> QED
      BY <1>1, <3>2, <3>3 DEF Closes, BridgeInv, Typed
  <2> QED
    BY <2>1, <2>2
<1>3. conn'[s] = conn[s] /\ (conn'[o] = conn[o] \/ (conn[o] = "open" /\ conn'[o] = "closed"))
  BY <1>0, <1>2 DEF Closes
<1>4. Closings(s) /\ Closings(o) /\ ClosedForAReason(s) /\ ClosedForAReason(o)
  BY <1>0, SideFacts
<1>5. Typed'
  BY <1>1, <1>2 DEF OnClose, BridgeInv, Typed
<1>6. Phases'
  <2>1. \A t \in Sides : conn'[t] = "none" <=> conn[t] = "none"
    BY <1>0, <1>3
  <2>2. "client" \in Sides /\ "target" \in Sides
    BY DEF Sides
  <2>3. \A t \in Sides : loop'[t] = loop[t] \/ (loop[t] = "closing" /\ loop'[t] = "ended")
    BY <1>0, <1>1
  <2>4. loop'["client"] \in {"off", "opening", "storing"} => s = "target"
    BY <1>1, <2>2, <1>0
  <2>5. s = "target" => session
    BY <1>1 DEF BridgeInv, Phases
  <2> QED
    BY <1>0, <1>1, <2>1, <2>2, <2>3, <2>4, <2>5 DEF Phases, BridgeInv
<1>7. \A x \in Sides : Coming(x)' => Coming(x)
  BY <1>0, <1>1, <1>3 DEF Coming, Sides, BridgeInv, Phases
<1>8. \A x \in Sides :
        /\ loop'[x] \in {"closing", "ended"} => conn'[x] # "open"
        /\ conn'[x] = "closed" /\ loop'[x] = "reading" => loop'[Other(x)] = "ended" \/ conn'["target"] = "none"
  BY <1>0, <1>1, <1>2, <1>3, <1>4 DEF Closings
<1>9. \A x \in Sides : InOrder(x)' /\ Closings(x)' /\ (Finished(x) => Finished(x)')
  BY <1>0, <1>2, <1>7, <1>8, ClosesOK
<1>10. ClosedForAReason(s)'
  BY <1>0, <1>1, <1>3, <1>4, <1>9 DEF ClosedForAReason, o
<1>11. ClosedForAReason(o)'
  <2>1. conn'[o] = "closed" /\ end[o] \in {"open", "closed"} => Finished(o)
    BY <1>0, <1>1, <1>3, <1>4 DEF ClosedForAReason, Closings
  <2> QED
    BY <1>0, <1>1, <1>2, <1>9, <2>1 DEF ClosedForAReason
<1> QED
  BY <1>0, <1>5, <1>6, <1>9, <1>10, <1>11, BothSides DEF o

LEMMA DialInv ==
  ASSUME BridgeInv, Dial
  PROVE  BridgeInv'
<1> DEFINE c == "client"
           t == "target"
<1>0. c \in Sides /\ t \in Sides /\ Other(c) = t /\ Other(t) = c /\ (\A x \in Sides : x = c \/ x = t)
  BY DEF Sides, Other
<1>1. /\ loop[c] = "opening" /\ conn[c] = "open" /\ conn[t] = "none" /\ end[t] = "none" /\ end[c] # "none"
      /\ ~session /\ loop[t] = "off" /\ loop'[t] = "off"
      /\ UNCHANGED <<sent, got, inbound, session>>
  BY <1>0 DEF Dial, BridgeInv, Phases, Typed
<1>2. CASE /\ loop' = [loop EXCEPT !["client"] = "storing"]
           /\ end' = [end EXCEPT !["target"] = "open"]
           /\ conn' = [conn EXCEPT !["target"] = "open"]
           /\ UNCHANGED outbound
  <2>1. /\ loop'[c] = "storing" /\ end'[t] = "open" /\ end'[c] = end[c]
        /\ conn'[t] = "open" /\ conn'[c] = "open"
    BY <1>0, <1>1, <1>2 DEF BridgeInv, Typed
  <2>2. Typed'
    BY <1>1, <1>2 DEF BridgeInv, Typed
  <2>3. Phases'
    BY <1>0, <1>1, <2>1 DEF Phases
  <2>4. InOrder(c)'
    <3>1. Linked(c)' => Linked(c)
      BY <1>1, <2>1 DEF Linked, Coming
    <3>2. Handed(c)' = Handed(c) /\ end[t] # "cut" /\ InOrder(c)
      BY <1>0, <1>1, <1>2, SideFacts DEF Handed
    <3> QED
      BY <1>0, <1>1, <1>2, <3>1, <3>2 DEF InOrder
  <2>5. InOrder(t)'
    <3>1. Linked(t)
      BY <1>1 DEF Linked, Coming
    <3>2. Handed(t)' = Handed(t) /\ end'[c] = end[c] /\ InOrder(t)
      BY <1>0, <1>1, <1>2, <2>1, SideFacts DEF Handed
    <3> QED
      BY <1>0, <1>1, <1>2, <3>1, <3>2 DEF InOrder
  <2>6. Closings(c)' /\ Closings(t)'
    BY <1>0, <1>1, <1>2, <2>1, SideFacts, EmptyQueue DEF Closings
  <2>7. ClosedForAReason(c)' /\ ClosedForAReason(t)'
    BY <1>0, <1>1, <2>1 DEF ClosedForAReason
  <2> QED
    BY <1>0, <2>2, <2>3, <2>4, <2>5, <2>6, <2>7, BothSides
<1>3. CASE /\ loop' = [loop EXCEPT !["client"] = "reading"]
           /\ WritesClose("client")
           /\ UNCHANGED end
  <2>1. /\ Closes(c) /\ conn'[c] # "open" /\ outbound' \in [Sides -> Seq(Nat)]
        /\ conn' \in [Sides -> {"none", "open", "closed"}]
    BY <1>0, <1>1, <1>3, WritesCloseEffect DEF WritesClose, BridgeInv, Typed
  <2>2. loop'[c] = "reading" /\ conn'[t] = "none" /\ conn'[c] = "closed" /\ end'[t] = "none" /\ end'[c] = end[c]
    BY <1>0, <1>1, <1>3, <2>1 DEF Closes, BridgeInv, Typed
  <2>3. Typed'
    BY <1>1, <1>3, <2>1 DEF BridgeInv, Typed
  <2>4. Phases'
    BY <1>0, <1>1, <2>2 DEF Phases
  <2>5. \A x \in Sides : Coming(x)' => Coming(x)
    BY <1>0, <2>2 DEF Coming
  <2>6. \A x \in Sides :
          /\ loop'[x] \in {"closing", "ended"} => conn'[x] # "open"
          /\ conn'[x] = "closed" /\ loop'[x] = "reading" => loop'[Other(x)] = "ended" \/ conn'["target"] = "none"
    BY <1>0, <1>1, <2>2
  <2>7. \A x \in Sides : InOrder(x)' /\ Closings(x)'
    BY <1>0, <2>1, <2>5, <2>6, ClosesOK
  <2>8. ClosedForAReason(c)' /\ ClosedForAReason(t)'
    BY <1>0, <1>1, <2>2 DEF ClosedForAReason, Finished, Coming
  <2> QED
    BY <1>0, <2>3, <2>4, <2>7, <2>8, BothSides
<1> QED
  BY <1>2, <1>3 DEF Dial

LEMMA NextInv ==
  ASSUME BridgeInv, [Next]_vars
  PROVE  BridgeInv'
<1>1. CASE UNCHANGED vars
  <2>1. UNCHANGED <<end, sent, got, inbound, outbound, conn, loop, session>>
    BY <1>1 DEF vars, ends, wires, bridge
  <2> QED
    BY <2>1 DEF BridgeInv, Typed, Phases, InOrder, Closings, ClosedForAReason, Finished, Linked, Coming, Handed
<1> QED
  BY <1>1, UpgradeInv, DialInv, StoreInv, ReadInv, ReadEndInv, OnCloseInv, SendInv, LeaveInv,
     ReceiveInv, BreakInv DEF Next, Loop

LEMMA Invariant == Spec => []BridgeInv
<1>1. Init => BridgeInv
  BY InitInv
<1>2. BridgeInv /\ [Next]_vars => BridgeInv'
  BY NextInv
<1> QED
  BY <1>1, <1>2, PTL DEF Spec

\* What an end got is always the beginning of what the other one sent, and all of it
\* once the other has left and the bridge has closed this one, for any number of
\* frames and any room in the connections.
THEOREM FaithfulCorrect == Spec => []Faithful
<1>1. ASSUME BridgeInv PROVE Faithful
  <2> SUFFICES ASSUME NEW s \in Sides
               PROVE  /\ IsPrefix(got[s], sent[Other(s)])
                      /\ end[s] = "closed" /\ end[Other(s)] \in {"closing", "left"} => got[s] = sent[Other(s)]
    BY DEF Faithful
  <2> DEFINE o == Other(s)
             g == got[s]
             m == sent[o]
  <2>1. o \in Sides
    BY TwoSides
  <2>2. /\ g \in Seq(Nat) /\ m \in Seq(Nat) /\ Len(g) \in Nat /\ Len(m) \in Nat /\ Frames(outbound[s]) \in Nat
        /\ InOrder(s) /\ InOrder(o) /\ Closings(s) /\ ClosedForAReason(s)
    BY <1>1, <2>1, SideFacts
  <2>3. (\A i \in 1 .. Len(g) : g[i] = i) /\ (\A i \in 1 .. Len(m) : m[i] = i)
    BY <2>2 DEF InOrder, Counts
  <2>4. Len(g) + Frames(outbound[s]) <= Len(m)
    BY <2>2 DEF InOrder
  <2>5. end[s] = "closed" /\ end[o] \in {"closing", "left"} => Len(g) = Len(m)
    <3>1. Frames(<<>>) = 0
      BY EmptyQueue
    <3> QED
      BY <2>2, <3>1 DEF Closings, ClosedForAReason, Finished
  <2> HIDE DEF g, m
  <2>6. Len(g) <= Len(m)
    BY <2>2, <2>4
  <2>7. IsPrefix(g, m)
    <3>1. SubSeq(g, 1, Len(g)) = SubSeq(m, 1, Len(g))
      BY <2>2, <2>3, <2>6
    <3> QED
      BY <2>6, <3>1 DEF IsPrefix
  <2>8. Len(g) = Len(m) => g = m
    BY <2>2, <2>3
  <2> QED
    BY <2>5, <2>7, <2>8 DEF g, m
<1> QED
  BY <1>1, Invariant, PTL
=============================================================================
