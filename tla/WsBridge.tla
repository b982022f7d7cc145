------------------------------ MODULE WsBridge ------------------------------
(***************************************************************************)
(* The websocket bridge (internal/wsproxy/wsproxy.go): a connection to the *)
(* client and one to the target, each read by a loop of its own that hands *)
(* frames to the other connection.  The target is dialled by the client's  *)
(* loop; either end may send, close or disappear at any time.              *)
(*                                                                         *)
(* Messages, pings and pongs are frames, written as numbers; the library   *)
(* (gws) and the connections are modelled from how the handlers use them.  *)
(***************************************************************************)
EXTENDS Naturals, Sequences, SequencesExt

CONSTANTS
  MaxSent,  \* bound on the frames each end sends
  Room      \* frames a connection takes before a write blocks

ASSUME BoundsAssumption == MaxSent \in Nat /\ Room \in Nat \ {0}

Sides == {"client", "target"}
Other(s) == IF s = "client" THEN "target" ELSE "client"
Close == 0

VARIABLES
  end,      \* each end: "none", "open", "closing" and then "left", "closed" by the bridge, "cut"
  sent, got, \* what each end sent and received
  inbound, outbound,  \* frames on the way from and to each end
  conn,     \* gws.Conn of each side: "none", "open", "closed"
  loop,     \* read loops: "off", "opening", "storing", "reading", "closing", "ended"
  session   \* the client's session knows the target

ends == <<end, sent, got>>
wires == <<inbound, outbound>>
bridge == <<conn, loop, session>>
vars == <<ends, wires, bridge>>

-----------------------------------------------------------------------------
(* The bridge.                                                             *)

\* A write takes a frame along unless the connection is closed or cut, and waits for
\* room.
Writes(s, frame) ==
  IF conn[s] # "open" \/ end[s] = "cut"
    THEN UNCHANGED outbound
    ELSE /\ Len(outbound[s]) < Room
         /\ outbound' = [outbound EXCEPT ![s] = Append(@, frame)]

\* WriteClose: a close frame, after which the connection takes and gives nothing more.
WritesClose(s) ==
  /\ Writes(s, Close)
  /\ conn' = [conn EXCEPT ![s] = IF @ = "open" THEN "closed" ELSE @]

\* ProxyWebSocket: the handler returns, the loop goes on.
Upgrade ==
  /\ loop["client"] = "off"
  /\ \/ /\ loop' = [loop EXCEPT !["client"] = "opening"]
        /\ end' = [end EXCEPT !["client"] = "open"]
        /\ conn' = [conn EXCEPT !["client"] = "open"]
     \/ /\ loop' = [loop EXCEPT !["client"] = "ended"]
        /\ UNCHANGED <<end, conn>>
  /\ UNCHANGED <<sent, got, wires, session>>

\* OnOpen of the client: nothing is read before the target is there; when it cannot
\* be reached the client is told so.
Dial ==
  /\ loop["client"] = "opening"
  /\ \/ /\ loop' = [loop EXCEPT !["client"] = "storing"]
        /\ end' = [end EXCEPT !["target"] = "open"]
        /\ conn' = [conn EXCEPT !["target"] = "open"]
        /\ UNCHANGED outbound
     \/ /\ loop' = [loop EXCEPT !["client"] = "reading"]
        /\ WritesClose("client")
        /\ UNCHANGED end
  /\ UNCHANGED <<sent, got, inbound, session>>

\* The session is stored and the target's loop started.
Store ==
  /\ loop["client"] = "storing"
  /\ session' = TRUE
  /\ loop' = [s \in Sides |-> "reading"]
  /\ UNCHANGED <<ends, wires, conn>>

\* The client's loop finds its counterpart in the session, the target's was given it.
Knows(s) == s = "client" => session

Readable(s) ==
  loop[s] = "reading" /\ conn[s] = "open" /\ inbound[s] # <<>>

\* Mutant: a goroutine hands each message over.
ReadInBackground(s) ==
  /\ Readable(s)
  /\ \E i \in DOMAIN inbound[s] :
       /\ inbound[s][i] # Close
       /\ IF Knows(s) THEN Writes(Other(s), inbound[s][i]) ELSE UNCHANGED outbound
       /\ inbound' = [inbound EXCEPT ![s] = RemoveAt(@, i)]
  /\ UNCHANGED <<ends, bridge>>

\* OnMessage, OnPing, OnPong.
Read(s) ==
  /\ Readable(s)
  /\ Head(inbound[s]) # Close
  /\ IF Knows(s) THEN Writes(Other(s), Head(inbound[s])) ELSE UNCHANGED outbound
  /\ inbound' = [inbound EXCEPT ![s] = Tail(@)]
  /\ UNCHANGED <<ends, bridge>>

\* The loop ends when its connection was closed by the other loop or is cut, or with a
\* close frame, which is answered.
ReadEnd(s) ==
  /\ loop[s] = "reading"
  /\ \/ conn[s] = "closed" /\ UNCHANGED <<outbound, conn>>
     \/ /\ conn[s] = "open" /\ end[s] = "cut" /\ inbound[s] = <<>>
        /\ conn' = [conn EXCEPT ![s] = "closed"]
        /\ UNCHANGED outbound
     \/ Readable(s) /\ Head(inbound[s]) = Close /\ WritesClose(s)
  /\ loop' = [loop EXCEPT ![s] = "closing"]
  /\ UNCHANGED <<ends, inbound, session>>

\* Mutant: the other connection is left open.
OnCloseAlone(s) ==
  /\ loop[s] = "closing"
  /\ loop' = [loop EXCEPT ![s] = "ended"]
  /\ UNCHANGED <<ends, wires, conn, session>>

OnClose(s) ==
  /\ loop[s] = "closing"
  /\ IF Knows(s) THEN WritesClose(Other(s)) ELSE UNCHANGED <<outbound, conn>>
  /\ loop' = [loop EXCEPT ![s] = "ended"]
  /\ UNCHANGED <<ends, inbound, session>>

-----------------------------------------------------------------------------
(* The ends.                                                               *)

Send(s) ==
  /\ end[s] = "open"
  /\ Len(sent[s]) < MaxSent
  /\ sent' = [sent EXCEPT ![s] = Append(@, Len(@) + 1)]
  /\ inbound' = [inbound EXCEPT ![s] = Append(@, Len(sent[s]) + 1)]
  /\ UNCHANGED <<end, got, outbound, bridge>>

Leave(s) ==
  /\ end[s] = "open"
  /\ end' = [end EXCEPT ![s] = "closing"]
  /\ inbound' = [inbound EXCEPT ![s] = Append(@, Close)]
  /\ UNCHANGED <<sent, got, outbound, bridge>>

Receive(s) ==
  /\ end[s] \in {"open", "closing"} /\ outbound[s] # <<>>
  /\ IF Head(outbound[s]) = Close
       THEN /\ end' = [end EXCEPT ![s] = IF @ = "open" THEN "closed" ELSE "left"]
            /\ UNCHANGED got
       ELSE got' = [got EXCEPT ![s] = Append(@, Head(outbound[s]))] /\ UNCHANGED end
  /\ outbound' = [outbound EXCEPT ![s] = Tail(@)]
  /\ UNCHANGED <<sent, inbound, bridge>>

\* A connection is cut, or reset because an end still sent when the bridge had closed
\* it: what is on the way may be lost.
Break(s) ==
  /\ end[s] \in {"open", "closing"}
  /\ end' = [end EXCEPT ![s] = "cut"]
  /\ \E i \in 0 .. Len(inbound[s]) : inbound' = [inbound EXCEPT ![s] = SubSeq(@, 1, i)]
  /\ outbound' = [outbound EXCEPT ![s] = <<>>]
  /\ UNCHANGED <<sent, got, bridge>>

-----------------------------------------------------------------------------
Init ==
  /\ end = [s \in Sides |-> "none"]
  /\ sent = [s \in Sides |-> <<>>] /\ got = sent
  /\ inbound = sent /\ outbound = sent
  /\ conn = [s \in Sides |-> "none"]
  /\ loop = [s \in Sides |-> "off"]
  /\ session = FALSE

Loop(s) == Read(s) \/ ReadEnd(s) \/ OnClose(s)

Next ==
  \/ Upgrade \/ Dial \/ Store
  \/ \E s \in Sides : Loop(s) \/ Send(s) \/ Leave(s) \/ Receive(s) \/ Break(s)

\* Goroutines run; an end reads what it gets and need not do anything else.
Fairness ==
  /\ WF_vars(Dial) /\ WF_vars(Store)
  /\ \A s \in Sides : WF_vars(Loop(s)) /\ WF_vars(Receive(s))

Spec == Init /\ [][Next]_vars /\ Fairness

-----------------------------------------------------------------------------
\* The bridge adds, drops and reorders nothing (wsproxy.go:149, 189): what an end got
\* is a prefix of what the other sent, and all of it once the other has left and the
\* bridge closed this one, also what was sent while the target was being dialled.
Faithful ==
  \A s \in Sides :
    /\ IsPrefix(got[s], sent[Other(s)])
    /\ end[s] = "closed" /\ end[Other(s)] \in {"closing", "left"} => got[s] = sent[Other(s)]

\* When one end leaves or is gone, the other is closed and both loops end, also while
\* writes wait for room.
ClosedTogether ==
  \A s \in Sides :
    end[s] \in {"closing", "left", "closed", "cut"} ~>
      /\ end[Other(s)] \in {"none", "left", "closed", "cut"}
      /\ \A t \in Sides : loop[t] \in {"off", "ended"}
=============================================================================
