---------------------------- MODULE NetworkProofs ----------------------------
(***************************************************************************)
(* Theorems about Network: what a program is given over a connection is    *)
(* what the program at the other end began to send, in order and whole, it *)
(* comes from an end that proved who it is, and no call outlasts its       *)
(* deadline; for any number of programs, connections and messages.         *)
(***************************************************************************)
EXTENDS Network, TLAPS

Connection == [client : Peers, server : Procs, at : Addresses, proves : SUBSET {"client", "server"},
               shake : {"queued", "hello", "finished", "over"}, open : SUBSET Peers]
Listener == [kind : {"listener"}, at : Addresses]
ChannelTo(n) == [kind : {"channel"}, conn : 1..n]
CallOn(n) == [fn : {"connect", "accept", "send", "receive"}, handle : Nat, conn : 0..n, bytes : Seq(Nat),
              age : Nat, deadline : 1..MaxTimeout]

HandlesTyped(p) == Names(p) \subseteq Nat /\ \A h \in Names(p) : handles[p][h] \in Listener \union ChannelTo(Len(conns))
CallTyped(p) == Busy(p) => op[p] \in CallOn(Len(conns)) /\ (op[p].conn = 0 => op[p].fn = "accept")
TypeOK ==
  /\ DOMAIN handles = Procs /\ DOMAIN op = Procs
  /\ \A p \in Procs : HandlesTyped(p) /\ CallTyped(p)
  /\ created \in [Procs -> Nat] /\ timeout \in [Procs -> 1..MaxTimeout]
  /\ allowed \in [Procs -> SUBSET Addresses] /\ ended \subseteq Procs /\ strange \in Nat
  /\ conns \in Seq(Connection) /\ Len(conns) <= MaxConns
  /\ wire \in [Ends -> Seq(Nat)] /\ sent \in [Ends -> Seq(Seq(Nat))] /\ received \in [Ends -> Seq(Seq(Nat))]

-----------------------------------------------------------------------------
(* What the operations of the model do to the handles, the call and the    *)
(* connections, whatever action uses them.                                 *)
LEMMA Inserted ==
  ASSUME TypeOK, NEW p \in Procs, NEW x, Insert(p, x)
  PROVE  /\ created' \in [Procs -> Nat] /\ DOMAIN handles' = Procs
         /\ \A q \in Procs \ {p} : handles'[q] = handles[q]
         /\ DOMAIN handles'[p] = Names(p) \union {created[p] + 1}
         /\ \A h \in DOMAIN handles'[p] : handles'[p][h] = IF h \in Names(p) THEN handles[p][h] ELSE x
BY DEF Insert, TypeOK, Names

LEMMA Removed ==
  ASSUME TypeOK, NEW p \in Procs, NEW h, Remove(p, h)
  PROVE  /\ DOMAIN handles' = Procs /\ \A q \in Procs \ {p} : handles'[q] = handles[q]
         /\ DOMAIN handles'[p] = Names(p) \ {h}
         /\ \A n \in DOMAIN handles'[p] : handles'[p][n] = handles[p][n]
BY DEF Remove, TypeOK, Names, Restrict

LEMMA Restored ==
  ASSUME TypeOK, NEW p \in Procs, NEW h, NEW x, Restore(p, h, x)
  PROVE  /\ DOMAIN handles' = Procs /\ \A q \in Procs \ {p} : handles'[q] = handles[q]
         /\ DOMAIN handles'[p] = Names(p) \union {h}
         /\ \A n \in DOMAIN handles'[p] : handles'[p][n] = IF n = h THEN x ELSE handles[p][n]
BY DEF Restore, TypeOK, Names

(* What a step changes of a call.                                          *)
LEMMA CallEdited ==
  ASSUME NEW n \in Nat, NEW o \in CallOn(n)
  PROVE  /\ \A c \in 0..n : LET x == [o EXCEPT !.conn = c] IN
              x \in CallOn(n) /\ x.conn = c /\ x.fn = o.fn /\ x.age = o.age /\ x.deadline = o.deadline
         /\ \A b \in Seq(Nat) : LET x == [o EXCEPT !.bytes = b] IN
              x \in CallOn(n) /\ x.bytes = b /\ x.conn = o.conn /\ x.fn = o.fn /\ x.age = o.age /\ x.deadline = o.deadline
         /\ \A a \in Nat : LET x == [o EXCEPT !.age = a] IN
              x \in CallOn(n) /\ x.age = a /\ x.bytes = o.bytes /\ x.conn = o.conn /\ x.fn = o.fn /\ x.deadline = o.deadline
BY DEF CallOn

LEMMA HeadTail == \A s \in Seq(Nat) : s # << >> => Head(s) \in Nat /\ Tail(s) \in Seq(Nat)
OBVIOUS

LEMMA Called ==
  ASSUME TypeOK, NEW p \in Procs
  PROVE  /\ \A fn, h, c, b : Start(p, fn, h, c, b) =>
              /\ DOMAIN op' = Procs /\ \A q \in Procs \ {p} : op'[q] = op[q]
              /\ op'[p] = [fn |-> fn, handle |-> h, conn |-> c, bytes |-> b, age |-> 0, deadline |-> timeout[p]]
         /\ Return(p) => DOMAIN op' = Procs /\ op'[p] = None /\ \A q \in Procs \ {p} : op'[q] = op[q]
BY DEF Start, Return, TypeOK

Kept(c) == /\ conns'[c].client = conns[c].client /\ conns'[c].server = conns[c].server
           /\ conns'[c].proves = conns[c].proves /\ conns'[c].at = conns[c].at

LEMMA Closed ==
  ASSUME TypeOK, NEW cs, NEW p \in Peers, CloseEnds(cs, p)
  PROVE  /\ strange' = strange /\ conns' \in Seq(Connection) /\ Len(conns') = Len(conns)
         /\ \A c \in DOMAIN conns : Kept(c) /\ conns'[c].shake = conns[c].shake
         /\ wire' \in [Ends -> Seq(Nat)]
         /\ \A e \in Ends : wire'[e] = wire[e] \/ (e[1] \in cs /\ e[2] = p /\ wire'[e] = << >>)
PROOF
<1>1. DOMAIN conns = 1..Len(conns) /\ Len(conns) \in Nat /\ \A c \in DOMAIN conns : conns[c] \in Connection
  BY DEF TypeOK
<1>2. \A c \in DOMAIN conns : conns'[c] = IF c \in cs THEN [conns[c] EXCEPT !.open = @ \ {p}] ELSE conns[c]
  BY DEF CloseEnds
<1>3. ASSUME NEW c \in DOMAIN conns PROVE conns'[c] \in Connection /\ Kept(c) /\ conns'[c].shake = conns[c].shake
  <2>1. conns[c] \in Connection
    BY <1>1
  <2>2. CASE c \in cs
    <3>1. conns'[c] = [conns[c] EXCEPT !.open = conns[c].open \ {p}]
      BY <1>2, <2>2
    <3>2. [conns[c] EXCEPT !.open = conns[c].open \ {p}] \in Connection
      BY <2>1 DEF Connection
    <3>3. Kept(c) /\ conns'[c].shake = conns[c].shake
      BY <2>1, <3>1 DEF Connection, Kept
    <3>4. QED
      BY <3>1, <3>2, <3>3
  <2>3. CASE c \notin cs
    BY <1>2, <2>1, <2>3 DEF Connection, Kept
  <2>4. QED
    BY <2>2, <2>3
<1>4. conns' \in [1..Len(conns) -> Connection]
  BY <1>1, <1>3 DEF CloseEnds
<1>5. conns' \in Seq(Connection) /\ Len(conns') = Len(conns)
  BY <1>1, <1>4
<1>6. PICK lost \in SUBSET cs : wire' = [e \in Ends |-> IF e[1] \in lost /\ e[2] = p THEN << >> ELSE wire[e]]
  BY DEF CloseEnds
<1>7. << >> \in Seq(Nat)
  OBVIOUS
<1>8. QED
  BY <1>3, <1>5, <1>6, <1>7 DEF CloseEnds, TypeOK

(* A step of a handshake changes nothing of a connection but how far it is. *)
LEMMA Shaken ==
  ASSUME TypeOK, NEW c \in DOMAIN conns, NEW x \in {"queued", "hello", "finished", "over"},
         conns' = [conns EXCEPT ![c].shake = x]
  PROVE  /\ conns' \in Seq(Connection) /\ Len(conns') = Len(conns) /\ DOMAIN conns' = DOMAIN conns
         /\ conns'[c].shake = x /\ Kept(c) /\ conns'[c].open = conns[c].open
         /\ \A d \in DOMAIN conns \ {c} : conns'[d] = conns[d]
PROOF
<1>1. DOMAIN conns = 1..Len(conns) /\ Len(conns) \in Nat /\ \A d \in DOMAIN conns : conns[d] \in Connection
  BY DEF TypeOK
<1>2. conns' = [conns EXCEPT ![c] = [conns[c] EXCEPT !.shake = x]]
  OBVIOUS
<1> DEFINE r == [conns[c] EXCEPT !.shake = x]
<1>3. r \in Connection /\ r.shake = x /\ r.client = conns[c].client /\ r.server = conns[c].server
      /\ r.proves = conns[c].proves /\ r.at = conns[c].at /\ r.open = conns[c].open
  BY <1>1 DEF Connection
<1>4. conns'[c] = r /\ DOMAIN conns' = DOMAIN conns /\ \A d \in DOMAIN conns \ {c} : conns'[d] = conns[d]
  BY <1>2
<1> HIDE DEF r
<1>5. conns' \in [1..Len(conns) -> Connection]
  BY <1>1, <1>2, <1>3, <1>4
<1>6. conns' \in Seq(Connection) /\ Len(conns') = Len(conns)
  BY <1>1, <1>5
<1>7. QED
  BY <1>3, <1>4, <1>6 DEF Kept

LEMMA Dialled ==
  ASSUME TypeOK, NEW p \in Peers, NEW a \in Addresses, NEW proofs \in SUBSET {"client", "server"}, Dial(p, a, proofs)
  PROVE  /\ Len(conns) < MaxConns /\ strange' = strange /\ wire' = wire
         /\ \E q \in Procs \ {p} : conns' = Append(conns, [client |-> p, server |-> q, at |-> a, proves |-> proofs,
                                                           shake |-> "queued", open |-> {p, q}])
         /\ conns' \in Seq(Connection) /\ Len(conns') = Len(conns) + 1
         /\ \A d \in DOMAIN conns : conns'[d] = conns[d]
PROOF
<1>1. PICK q \in Procs : q # p /\ conns' = Append(conns, [client |-> p, server |-> q, at |-> a, proves |-> proofs,
                                                           shake |-> "queued", open |-> {p, q}])
  BY DEF Dial
<1>2. [client |-> p, server |-> q, at |-> a, proves |-> proofs, shake |-> "queued", open |-> {p, q}] \in Connection
  BY DEF Connection, Peers
<1>3. Len(conns) < MaxConns /\ strange' = strange /\ wire' = wire
  BY DEF Dial
<1> DEFINE r == [client |-> p, server |-> q, at |-> a, proves |-> proofs, shake |-> "queued", open |-> {p, q}]
<1> HIDE DEF r
<1>4. r \in Connection /\ conns' = Append(conns, r) /\ conns \in Seq(Connection)
  BY <1>1, <1>2 DEF TypeOK, r
<1>5. conns' \in Seq(Connection) /\ Len(conns') = Len(conns) + 1 /\ \A d \in DOMAIN conns : conns'[d] = conns[d]
  BY <1>4
<1>6. QED
  BY <1>1, <1>3, <1>5

LEMMA TypeInit == Init => TypeOK
BY NetworkConstants DEF Init, TypeOK, NetworkConstants, HandlesTyped, CallTyped, Names, Busy

(* What a step of one program leaves of the types of the others.           *)
LEMMA OthersTyped ==
  ASSUME TypeOK, NEW p \in Procs, DOMAIN handles' = Procs, DOMAIN op' = Procs,
         \A q \in Procs \ {p} : handles'[q] = handles[q] /\ op'[q] = op[q],
         conns' \in Seq(Connection), Len(conns') >= Len(conns),
         HandlesTyped(p)', CallTyped(p)'
  PROVE  \A q \in Procs : HandlesTyped(q)' /\ CallTyped(q)'
PROOF
<1>1. \A m, n \in Nat : m <= n => ChannelTo(m) \subseteq ChannelTo(n) /\ CallOn(m) \subseteq CallOn(n)
  BY DEF ChannelTo, CallOn
<1>2. Len(conns) \in Nat /\ Len(conns') \in Nat
  BY DEF TypeOK
<1>3. ChannelTo(Len(conns)) \subseteq ChannelTo(Len(conns')) /\ CallOn(Len(conns)) \subseteq CallOn(Len(conns'))
  BY <1>1, <1>2
<1>4. QED
  BY <1>3 DEF TypeOK, HandlesTyped, CallTyped, Names, Busy

LEMMA TypeCall == ASSUME TypeOK, NEW p \in Procs, Call(p) PROVE TypeOK'
PROOF
<1>0. /\ DOMAIN conns = 1..Len(conns) /\ Len(conns) \in Nat /\ conns \in Seq(Connection) /\ p \in Peers
      /\ DOMAIN handles = Procs /\ DOMAIN op = Procs /\ HandlesTyped(p) /\ CallTyped(p)
  BY DEF TypeOK, Peers
<1>1. ASSUME UNCHANGED handles, UNCHANGED op, UNCHANGED conns
      PROVE  \A q \in Procs : HandlesTyped(q)' /\ CallTyped(q)'
  BY <1>1 DEF HandlesTyped, CallTyped, Names, Busy, TypeOK
<1>2. ASSUME NEW a \in Addresses, Allow(p, a) PROVE TypeOK'
  BY <1>1, <1>2 DEF Allow, network, TypeOK
<1>3. ASSUME NEW t \in 1..MaxTimeout, SetTimeout(p, t) PROVE TypeOK'
  BY <1>1, <1>3 DEF SetTimeout, network, TypeOK
<1>4. ASSUME NEW a \in Addresses, Listen(p, a) PROVE TypeOK'
  <2> DEFINE x == [kind |-> "listener", at |-> a]
  <2>1. Insert(p, x) /\ x \in Listener
    BY <1>4 DEF Listen, Listener
  <2>2. UNCHANGED <<ended, allowed, timeout, op, conns, strange, wire, sent, received>>
    BY <1>4 DEF Listen, network
  <2> HIDE DEF x
  <2>3. /\ created' \in [Procs -> Nat] /\ DOMAIN handles' = Procs
        /\ \A q \in Procs \ {p} : handles'[q] = handles[q]
        /\ DOMAIN handles'[p] = Names(p) \union {created[p] + 1}
        /\ \A h \in DOMAIN handles'[p] : handles'[p][h] = IF h \in Names(p) THEN handles[p][h] ELSE x
    BY <2>1, Inserted
  <2>4. HandlesTyped(p)'
    <3>1. created[p] + 1 \in Nat
      BY DEF TypeOK
    <3>2. QED
      BY <1>0, <2>1, <2>2, <2>3, <3>1 DEF HandlesTyped, Names
  <2>5. CallTyped(p)'
    BY <1>0, <2>2 DEF CallTyped, Busy
  <2>6. \A q \in Procs : HandlesTyped(q)' /\ CallTyped(q)'
    BY <1>0, <2>2, <2>3, <2>4, <2>5, OthersTyped
  <2>7. QED
    BY <1>0, <2>2, <2>3, <2>6 DEF TypeOK
<1>5. ASSUME NEW a \in Addresses, Connect(p, a) PROVE TypeOK'
  <2>1. PICK proofs \in SUBSET {"client", "server"} : Dial(p, a, proofs)
    BY <1>5 DEF Connect
  <2>2. /\ Len(conns) < MaxConns /\ strange' = strange /\ wire' = wire
        /\ conns' \in Seq(Connection) /\ Len(conns') = Len(conns) + 1
    BY <1>0, <2>1, Dialled
  <2>3. /\ Start(p, "connect", 0, Len(conns) + 1, << >>)
        /\ UNCHANGED <<handles, created, ended, allowed, timeout, sent, received>>
    BY <1>5 DEF Connect
  <2>4. /\ DOMAIN op' = Procs /\ \A q \in Procs \ {p} : op'[q] = op[q]
        /\ op'[p] = [fn |-> "connect", handle |-> 0, conn |-> Len(conns) + 1, bytes |-> << >>, age |-> 0, deadline |-> timeout[p]]
    BY <2>3, Called
  <2>5. timeout[p] \in 1..MaxTimeout /\ << >> \in Seq(Nat) /\ Len(conns) + 1 \in 0..Len(conns')
    BY <1>0, <2>2 DEF TypeOK
  <2>6. op'[p] \in CallOn(Len(conns'))
    BY <2>4, <2>5 DEF CallOn
  <2>7. ChannelTo(Len(conns)) \subseteq ChannelTo(Len(conns'))
    BY <1>0, <2>2 DEF ChannelTo
  <2>8. HandlesTyped(p)' /\ CallTyped(p)'
    BY <1>0, <2>3, <2>4, <2>6, <2>7 DEF HandlesTyped, CallTyped, Names, Busy
  <2>9. Len(conns') >= Len(conns)
    BY <1>0, <2>2
  <2>10. \A q \in Procs : HandlesTyped(q)' /\ CallTyped(q)'
    BY <1>0, <2>2, <2>3, <2>4, <2>8, <2>9, OthersTyped
  <2>11. Len(conns') <= MaxConns
    BY <1>0, <2>2, NetworkConstants DEF NetworkConstants
  <2>12. QED
    BY <1>0, <2>2, <2>3, <2>4, <2>10, <2>11 DEF TypeOK
<1>6. ASSUME NEW h \in Names(p), Accept(p, h) PROVE TypeOK'
  <2>1. /\ Start(p, "accept", 0, 0, << >>)
        /\ UNCHANGED <<handles, created, ended, allowed, timeout, conns, strange, wire, sent, received>>
    BY <1>6 DEF Accept, network
  <2>2. /\ DOMAIN op' = Procs /\ \A q \in Procs \ {p} : op'[q] = op[q]
        /\ op'[p] = [fn |-> "accept", handle |-> 0, conn |-> 0, bytes |-> << >>, age |-> 0, deadline |-> timeout[p]]
    BY <2>1, Called
  <2>3. timeout[p] \in 1..MaxTimeout /\ << >> \in Seq(Nat)
    BY DEF TypeOK
  <2>4. op'[p] \in CallOn(Len(conns))
    BY <1>0, <2>2, <2>3 DEF CallOn
  <2>5. CallTyped(p)' /\ HandlesTyped(p)'
    BY <1>0, <2>1, <2>2, <2>4 DEF CallTyped, HandlesTyped, Names, Busy
  <2>6. \A q \in Procs : HandlesTyped(q)' /\ CallTyped(q)'
    BY <1>0, <2>1, <2>2, <2>5, OthersTyped
  <2>7. QED
    BY <1>0, <2>1, <2>2, <2>6 DEF TypeOK
<1>7. ASSUME NEW h \in Names(p), NEW fn \in {"send", "receive"}, NEW b \in Seq(Nat), Channel(p, h),
             Start(p, fn, h, handles[p][h].conn, b), Remove(p, h), UNCHANGED <<conns>>
      PROVE  DOMAIN handles' = Procs /\ DOMAIN op' = Procs /\ \A q \in Procs : HandlesTyped(q)' /\ CallTyped(q)'
  <2>1. handles[p][h].conn \in 1..Len(conns) /\ h \in Nat
    BY <1>0, <1>7 DEF HandlesTyped, Channel, Listener, ChannelTo
  <2>2. /\ DOMAIN op' = Procs /\ \A q \in Procs \ {p} : op'[q] = op[q]
        /\ op'[p] = [fn |-> fn, handle |-> h, conn |-> handles[p][h].conn, bytes |-> b, age |-> 0, deadline |-> timeout[p]]
    BY <1>7, Called
  <2>3. /\ DOMAIN handles' = Procs /\ \A q \in Procs \ {p} : handles'[q] = handles[q]
        /\ DOMAIN handles'[p] = Names(p) \ {h}
        /\ \A n \in DOMAIN handles'[p] : handles'[p][n] = handles[p][n]
    BY <1>7, Removed
  <2>4. timeout[p] \in 1..MaxTimeout
    BY DEF TypeOK
  <2>5. op'[p] \in CallOn(Len(conns))
    BY <1>0, <2>1, <2>2, <2>4 DEF CallOn
  <2>6. CallTyped(p)' /\ HandlesTyped(p)'
    BY <1>0, <1>7, <2>1, <2>2, <2>3, <2>5 DEF CallTyped, HandlesTyped, Names, Busy
  <2>7. QED
    BY <1>0, <1>7, <2>2, <2>3, <2>6, OthersTyped
<1>8. ASSUME NEW h \in Names(p), Receive(p, h) PROVE TypeOK'
  <2>1. /\ Start(p, "receive", h, handles[p][h].conn, << >>) /\ Remove(p, h) /\ Channel(p, h)
        /\ UNCHANGED <<created, ended, allowed, timeout, conns, strange, wire, sent, received>>
    BY <1>8 DEF Receive, network
  <2>2. DOMAIN handles' = Procs /\ DOMAIN op' = Procs /\ \A q \in Procs : HandlesTyped(q)' /\ CallTyped(q)'
    BY <1>7, <2>1, << >> \in Seq(Nat)
  <2>3. QED
    BY <2>1, <2>2 DEF TypeOK
<1>9. ASSUME NEW h \in Names(p), NEW m \in Messages, Send(p, h, m) PROVE TypeOK'
  <2>1. /\ Start(p, "send", h, handles[p][h].conn, <<Len(m)>> \o m) /\ Remove(p, h) /\ Channel(p, h)
        /\ UNCHANGED <<created, ended, allowed, timeout, conns, strange, wire, received>>
    BY <1>9 DEF Send, network
  <2>2. m \in Seq(Nat) /\ <<Len(m)>> \o m \in Seq(Nat)
    BY NetworkConstants DEF NetworkConstants
  <2>3. DOMAIN handles' = Procs /\ DOMAIN op' = Procs /\ \A q \in Procs : HandlesTyped(q)' /\ CallTyped(q)'
    BY <1>7, <2>1, <2>2
  <2>4. sent' \in [Ends -> Seq(Seq(Nat))]
    <3>1. sent \in [Ends -> Seq(Seq(Nat))]
      BY DEF TypeOK
    <3>2. sent' = [sent EXCEPT ![<<handles[p][h].conn, p>>] = Append(sent[<<handles[p][h].conn, p>>], m)]
      BY <1>9 DEF Send
    <3>3. <<handles[p][h].conn, p>> \in Ends
      <4>1. handles[p][h].conn \in 1..Len(conns)
        BY <1>0, <2>1 DEF HandlesTyped, Channel, Listener, ChannelTo
      <4>2. handles[p][h].conn \in 1..MaxConns
        BY <1>0, <4>1, NetworkConstants DEF TypeOK, NetworkConstants
      <4>3. QED
        BY <1>0, <4>2 DEF Ends
    <3>4. Append(sent[<<handles[p][h].conn, p>>], m) \in Seq(Seq(Nat))
      BY <2>2, <3>1, <3>3
    <3>5. QED
      BY <3>1, <3>2, <3>4
  <2>5. QED
    BY <2>1, <2>3, <2>4 DEF TypeOK
<1>10. ASSUME NEW hs, CloseEnds(hs, p), UNCHANGED op, DOMAIN handles' = Procs,
              \A q \in Procs \ {p} : handles'[q] = handles[q], HandlesTyped(p)'
       PROVE  /\ \A q \in Procs : HandlesTyped(q)' /\ CallTyped(q)'
              /\ strange' \in Nat /\ conns' \in Seq(Connection) /\ Len(conns') <= MaxConns /\ wire' \in [Ends -> Seq(Nat)]
  <2>1. strange' = strange /\ conns' \in Seq(Connection) /\ Len(conns') = Len(conns) /\ wire' \in [Ends -> Seq(Nat)]
    BY <1>0, <1>10, Closed
  <2>2. CallTyped(p)' /\ Len(conns') >= Len(conns)
    BY <1>0, <1>10, <2>1 DEF CallTyped, Busy
  <2>3. \A q \in Procs : HandlesTyped(q)' /\ CallTyped(q)'
    BY <1>0, <1>10, <2>1, <2>2, OthersTyped
  <2>4. QED
    BY <2>1, <2>3 DEF TypeOK
<1>11. ASSUME NEW h \in Names(p), WrongKind(p, h) \/ Close(p, h) PROVE TypeOK'
  <2>1. Remove(p, h) /\ CloseEnds(Held(p, {h}), p) /\ UNCHANGED <<created, ended, allowed, timeout, op, sent, received>>
    BY <1>11 DEF WrongKind, Close
  <2>2. /\ DOMAIN handles' = Procs /\ \A q \in Procs \ {p} : handles'[q] = handles[q]
        /\ DOMAIN handles'[p] = Names(p) \ {h}
        /\ \A n \in DOMAIN handles'[p] : handles'[p][n] = handles[p][n]
    BY <2>1, Removed
  <2>3. Len(conns') = Len(conns)
    BY <1>0, <2>1, Closed
  <2>4. HandlesTyped(p)'
    BY <1>0, <2>2, <2>3 DEF HandlesTyped, Names
  <2>5. /\ \A q \in Procs : HandlesTyped(q)' /\ CallTyped(q)'
        /\ strange' \in Nat /\ conns' \in Seq(Connection) /\ Len(conns') <= MaxConns /\ wire' \in [Ends -> Seq(Nat)]
    BY <1>10, <2>1, <2>2, <2>4
  <2>6. QED
    BY <1>0, <2>1, <2>2, <2>5 DEF TypeOK
<1>12. ASSUME Drop(p) PROVE TypeOK'
  <2>1. /\ CloseEnds(Held(p, Names(p)), p) /\ UNCHANGED <<created, allowed, timeout, op, sent, received>>
        /\ handles' = [handles EXCEPT ![p] = << >>] /\ ended' = ended \union {p}
    BY <1>12 DEF Drop
  <2>2. DOMAIN handles' = Procs /\ handles'[p] = << >> /\ \A q \in Procs \ {p} : handles'[q] = handles[q]
    BY <1>0, <2>1
  <2>3. HandlesTyped(p)'
    BY <2>2 DEF HandlesTyped, Names
  <2>4. /\ \A q \in Procs : HandlesTyped(q)' /\ CallTyped(q)'
        /\ strange' \in Nat /\ conns' \in Seq(Connection) /\ Len(conns') <= MaxConns /\ wire' \in [Ends -> Seq(Nat)]
    BY <1>10, <2>1, <2>2, <2>3
  <2>5. QED
    BY <1>0, <2>1, <2>2, <2>4 DEF TypeOK
<1>13. QED
  BY <1>2, <1>3, <1>4, <1>5, <1>6, <1>8, <1>9, <1>11, <1>12 DEF Call

(* A program goes on with its call.                                        *)
LEMMA TypeProgress == ASSUME TypeOK, NEW p \in Procs, Progress(p) PROVE TypeOK'
PROOF
<1>0. /\ DOMAIN conns = 1..Len(conns) /\ Len(conns) \in Nat /\ conns \in Seq(Connection) /\ p \in Peers
      /\ DOMAIN handles = Procs /\ DOMAIN op = Procs /\ HandlesTyped(p) /\ CallTyped(p)
      /\ wire \in [Ends -> Seq(Nat)] /\ received \in [Ends -> Seq(Seq(Nat))] /\ Len(conns) \in 0..MaxConns /\ MaxConns \in Nat
  BY NetworkConstants DEF TypeOK, Peers, NetworkConstants
<1>1. ASSUME NEW o \in CallOn(Len(conns)), o.conn = 0 => o.fn = "accept", op' = [op EXCEPT ![p] = o], UNCHANGED handles,
             conns' \in Seq(Connection), Len(conns') = Len(conns)
      PROVE  DOMAIN op' = Procs /\ \A q \in Procs : HandlesTyped(q)' /\ CallTyped(q)'
  <2>1. DOMAIN op' = Procs /\ op'[p] = o /\ \A q \in Procs \ {p} : op'[q] = op[q]
    BY <1>0, <1>1
  <2>2. HandlesTyped(p)' /\ CallTyped(p)'
    BY <1>0, <1>1, <2>1 DEF HandlesTyped, CallTyped, Names, Busy
  <2>3. QED
    BY <1>0, <1>1, <2>1, <2>2, OthersTyped
<1>2. ASSUME NEW c \in DOMAIN conns, AcceptSocket(p, c) PROVE TypeOK'
  <2>1. /\ Busy(p) /\ op' = [op EXCEPT ![p].conn = c] /\ conns' = [conns EXCEPT ![c].shake = "hello"]
        /\ UNCHANGED <<handles, created, ended, allowed, timeout, strange, wire, sent, received>>
    BY <1>2 DEF AcceptSocket
  <2>2. conns' \in Seq(Connection) /\ Len(conns') = Len(conns)
    BY <2>1, Shaken
  <2>3. op' = [op EXCEPT ![p] = [op[p] EXCEPT !.conn = c]]
    BY <2>1
  <2>4. [op[p] EXCEPT !.conn = c] \in CallOn(Len(conns)) /\ [op[p] EXCEPT !.conn = c].conn # 0
    <3>1. op[p] \in CallOn(Len(conns))
      BY <1>0, <2>1 DEF CallTyped
    <3>2. Len(conns) \in Nat /\ c \in 0..Len(conns) /\ c # 0
      BY <1>0
    <3>3. \A b \in 0..Len(conns) : [op[p] EXCEPT !.conn = b] \in CallOn(Len(conns)) /\ [op[p] EXCEPT !.conn = b].conn = b
      BY <3>1, <3>2, CallEdited
    <3>4. QED
      BY <3>2, <3>3
  <2>5. DOMAIN op' = Procs /\ \A q \in Procs : HandlesTyped(q)' /\ CallTyped(q)'
    BY <1>1, <2>1, <2>2, <2>3, <2>4
  <2>6. QED
    BY <2>1, <2>2, <2>5 DEF TypeOK
<1>3. ASSUME NEW x \in Listener \union ChannelTo(Len(conns)), Insert(p, x) \/ \E h \in Nat : Restore(p, h, x) /\ UNCHANGED created,
             Return(p), conns' \in Seq(Connection), Len(conns') = Len(conns)
      PROVE  /\ created' \in [Procs -> Nat] /\ DOMAIN handles' = Procs /\ DOMAIN op' = Procs
             /\ \A q \in Procs : HandlesTyped(q)' /\ CallTyped(q)'
  <2>1. DOMAIN op' = Procs /\ op'[p] = None /\ \A q \in Procs \ {p} : op'[q] = op[q]
    BY <1>3, Called
  <2>2. CallTyped(p)'
    BY <2>1 DEF CallTyped, Busy
  <2>3. created \in [Procs -> Nat] /\ created[p] + 1 \in Nat
    BY DEF TypeOK
  <2>4. /\ created' \in [Procs -> Nat] /\ DOMAIN handles' = Procs /\ \A q \in Procs \ {p} : handles'[q] = handles[q]
        /\ HandlesTyped(p)'
    <3>1. CASE Insert(p, x)
      <4>1. /\ created' \in [Procs -> Nat] /\ DOMAIN handles' = Procs /\ \A q \in Procs \ {p} : handles'[q] = handles[q]
            /\ DOMAIN handles'[p] = Names(p) \union {created[p] + 1}
            /\ \A h \in DOMAIN handles'[p] : handles'[p][h] = IF h \in Names(p) THEN handles[p][h] ELSE x
        BY <1>3, <3>1, Inserted
      <4>2. QED
        BY <1>0, <1>3, <2>3, <4>1 DEF HandlesTyped, Names
    <3>2. ASSUME NEW h \in Nat, Restore(p, h, x), UNCHANGED created
          PROVE  /\ created' \in [Procs -> Nat] /\ DOMAIN handles' = Procs /\ \A q \in Procs \ {p} : handles'[q] = handles[q]
                 /\ HandlesTyped(p)'
      <4>1. /\ DOMAIN handles' = Procs /\ \A q \in Procs \ {p} : handles'[q] = handles[q]
            /\ DOMAIN handles'[p] = Names(p) \union {h}
            /\ \A n \in DOMAIN handles'[p] : handles'[p][n] = IF n = h THEN x ELSE handles[p][n]
        BY <3>2, Restored
      <4>2. QED
        BY <1>0, <1>3, <2>3, <3>2, <4>1 DEF HandlesTyped, Names
    <3>3. QED
      BY <1>3, <3>1, <3>2
  <2>5. /\ DOMAIN handles' = Procs /\ DOMAIN op' = Procs /\ conns' \in Seq(Connection) /\ Len(conns') >= Len(conns)
        /\ \A q \in Procs \ {p} : handles'[q] = handles[q] /\ op'[q] = op[q]
    BY <1>0, <1>3, <2>1, <2>4
  <2>6. \A q \in Procs : HandlesTyped(q)' /\ CallTyped(q)'
    BY <2>2, <2>4, <2>5, OthersTyped
  <2>7. QED
    BY <2>4, <2>5, <2>6
<1>4. ASSUME ClientShaken(p) \/ ServerShaken(p), op[p].conn \in DOMAIN conns PROVE TypeOK'
  <2> DEFINE c == op[p].conn
             x == [kind |-> "channel", conn |-> c]
  <2>1. PICK s \in {"finished", "over"} : conns' = [conns EXCEPT ![c].shake = s]
    BY <1>4 DEF ClientShaken, ServerShaken
  <2>2. /\ Insert(p, x) /\ Return(p) /\ UNCHANGED <<ended, allowed, timeout, strange, wire, sent, received>>
    BY <1>4 DEF ClientShaken, ServerShaken
  <2>3. conns' \in Seq(Connection) /\ Len(conns') = Len(conns)
    BY <1>4, <2>1, Shaken
  <2>4. x \in ChannelTo(Len(conns))
    BY <1>0, <1>4 DEF ChannelTo
  <2> HIDE DEF x, c
  <2>5. /\ created' \in [Procs -> Nat] /\ DOMAIN handles' = Procs /\ DOMAIN op' = Procs
        /\ \A q \in Procs : HandlesTyped(q)' /\ CallTyped(q)'
    BY <1>3, <2>2, <2>3, <2>4
  <2>6. QED
    BY <1>0, <2>2, <2>3, <2>5 DEF TypeOK
<1>5. ASSUME Busy(p), op[p].fn \in {"send", "receive"}, op[p].conn # 0
      PROVE  /\ op[p] \in CallOn(Len(conns)) /\ op[p].conn \in 1..MaxConns /\ <<op[p].conn, p>> \in Ends
             /\ op[p].bytes \in Seq(Nat) /\ [kind |-> "channel", conn |-> op[p].conn] \in ChannelTo(Len(conns))
             /\ op[p].handle \in Nat
  BY <1>0, <1>5 DEF CallTyped, CallOn, Ends, ChannelTo
<1>6. ASSUME Write(p), op[p].conn # 0 PROVE TypeOK'
  <2> DEFINE e == <<op[p].conn, p>>
  <2>1. /\ Busy(p) /\ op[p].fn = "send" /\ op[p].bytes # << >>
        /\ wire' = [wire EXCEPT ![e] = Append(wire[e], Head(op[p].bytes))]
        /\ op' = [op EXCEPT ![p] = [op[p] EXCEPT !.bytes = Tail(op[p].bytes)]]
        /\ UNCHANGED <<handles, created, ended, allowed, timeout, conns, strange, sent, received>>
    BY <1>6 DEF Write
  <2>2. e \in Ends /\ op[p] \in CallOn(Len(conns)) /\ op[p].bytes \in Seq(Nat)
    BY <1>5, <1>6, <2>1
  <2> HIDE DEF e
  <2>3. Head(op[p].bytes) \in Nat /\ Tail(op[p].bytes) \in Seq(Nat)
    BY <2>1, <2>2, HeadTail
  <2>4. LET o == [op[p] EXCEPT !.bytes = Tail(op[p].bytes)] IN o \in CallOn(Len(conns)) /\ o.conn # 0
    <3>1. Len(conns) \in Nat
      BY <1>0
    <3>2. \A b \in Seq(Nat) : [op[p] EXCEPT !.bytes = b] \in CallOn(Len(conns)) /\ [op[p] EXCEPT !.bytes = b].conn = op[p].conn
      BY <2>2, <3>1, CallEdited
    <3>3. QED
      BY <1>6, <2>3, <3>2
  <2>5. DOMAIN op' = Procs /\ \A q \in Procs : HandlesTyped(q)' /\ CallTyped(q)'
    BY <1>0, <1>1, <2>1, <2>4
  <2>6. Append(wire[e], Head(op[p].bytes)) \in Seq(Nat)
    BY <1>0, <2>2, <2>3
  <2>7. wire' \in [Ends -> Seq(Nat)]
    BY <1>0, <2>1, <2>2, <2>6
  <2>8. QED
    BY <2>1, <2>5, <2>7 DEF TypeOK
<1>7. ASSUME Sent(p), op[p].conn # 0 PROVE TypeOK'
  <2> DEFINE x == [kind |-> "channel", conn |-> op[p].conn]
  <2>1. /\ Busy(p) /\ op[p].fn = "send" /\ Restore(p, op[p].handle, x) /\ Return(p)
        /\ UNCHANGED <<created, ended, allowed, timeout, conns, strange, wire, sent, received>>
    BY <1>7 DEF Sent, network
  <2>2. x \in ChannelTo(Len(conns)) /\ op[p].handle \in Nat
    BY <1>5, <1>7, <2>1
  <2> HIDE DEF x
  <2>3. /\ created' \in [Procs -> Nat] /\ DOMAIN handles' = Procs /\ DOMAIN op' = Procs
        /\ \A q \in Procs : HandlesTyped(q)' /\ CallTyped(q)'
    BY <1>0, <1>3, <2>1, <2>2
  <2>4. QED
    BY <2>1, <2>3 DEF TypeOK
<1>8. ASSUME Received(p), op[p].conn # 0 PROVE TypeOK'
  <2> DEFINE x == [kind |-> "channel", conn |-> op[p].conn]
             e == <<op[p].conn, p>>
  <2>1. /\ Busy(p) /\ op[p].fn = "receive" /\ Whole(op[p].bytes) /\ Restore(p, op[p].handle, x) /\ Return(p)
        /\ received' = [received EXCEPT ![e] = Append(received[e], Tail(op[p].bytes))]
        /\ UNCHANGED <<created, ended, allowed, timeout, conns, strange, wire, sent>>
    BY <1>8 DEF Received, network
  <2>2. x \in ChannelTo(Len(conns)) /\ op[p].handle \in Nat /\ e \in Ends /\ op[p].bytes \in Seq(Nat)
    BY <1>5, <1>8, <2>1
  <2> HIDE DEF x, e
  <2>3. /\ created' \in [Procs -> Nat] /\ DOMAIN handles' = Procs /\ DOMAIN op' = Procs
        /\ \A q \in Procs : HandlesTyped(q)' /\ CallTyped(q)'
    BY <1>0, <1>3, <2>1, <2>2
  <2>4. Tail(op[p].bytes) \in Seq(Nat)
    BY <2>1, <2>2 DEF Whole
  <2>5. Append(received[e], Tail(op[p].bytes)) \in Seq(Seq(Nat))
    BY <1>0, <2>2, <2>4
  <2>6. received' \in [Ends -> Seq(Seq(Nat))]
    BY <1>0, <2>1, <2>2, <2>5
  <2>7. QED
    BY <2>1, <2>3, <2>6 DEF TypeOK
<1>9. ASSUME Read(p), op[p].conn # 0, <<op[p].conn, Other(op[p].conn, p)>> \in Ends PROVE TypeOK'
  <2> DEFINE e == <<op[p].conn, Other(op[p].conn, p)>>
             bytes == Append(op[p].bytes, Head(wire[e]))
  <2>1. /\ Busy(p) /\ op[p].fn = "receive" /\ wire[e] # << >>
        /\ op' = [op EXCEPT ![p].bytes = bytes, ![p].deadline = op[p].deadline]
        /\ wire' = [wire EXCEPT ![e] = Tail(wire[e])]
        /\ UNCHANGED <<handles, created, ended, allowed, timeout, conns, strange, sent, received>>
    BY <1>9 DEF Read, Deadline
  <2>2. op[p] \in CallOn(Len(conns)) /\ op[p].bytes \in Seq(Nat) /\ wire[e] \in Seq(Nat) /\ e \in Ends
    BY <1>0, <1>5, <1>9, <2>1
  <2>3. Head(wire[e]) \in Nat /\ Tail(wire[e]) \in Seq(Nat)
    BY <2>1, <2>2, HeadTail
  <2>4. bytes \in Seq(Nat)
    BY <2>2, <2>3
  <2>5. op' = [op EXCEPT ![p] = [op[p] EXCEPT !.bytes = bytes, !.deadline = op[p].deadline]]
    BY <1>0, <2>1
  <2> HIDE DEF bytes, e
  <2>6. LET o == [op[p] EXCEPT !.bytes = bytes, !.deadline = op[p].deadline] IN o \in CallOn(Len(conns)) /\ o.conn # 0
    BY <1>9, <2>2, <2>4 DEF CallOn
  <2>7. DOMAIN op' = Procs /\ \A q \in Procs : HandlesTyped(q)' /\ CallTyped(q)'
    BY <1>0, <1>1, <2>1, <2>5, <2>6
  <2>8. wire' \in [Ends -> Seq(Nat)]
    BY <1>0, <2>1, <2>2, <2>3
  <2>9. QED
    BY <2>1, <2>7, <2>8 DEF TypeOK
<1>10. ASSUME Retire(p) PROVE TypeOK'
  <2>1. /\ Return(p) /\ CloseEnds({op[p].conn} \ {0}, p)
        /\ UNCHANGED <<handles, created, ended, allowed, timeout, sent, received>>
    BY <1>10 DEF Retire
  <2>2. strange' = strange /\ conns' \in Seq(Connection) /\ Len(conns') = Len(conns) /\ wire' \in [Ends -> Seq(Nat)]
    BY <1>0, <2>1, Closed
  <2>3. DOMAIN op' = Procs /\ op'[p] = None /\ \A q \in Procs \ {p} : op'[q] = op[q]
    BY <2>1, Called
  <2>4. HandlesTyped(p)' /\ CallTyped(p)'
    BY <1>0, <2>1, <2>2, <2>3 DEF HandlesTyped, CallTyped, Names, Busy
  <2>5. \A q \in Procs : HandlesTyped(q)' /\ CallTyped(q)'
    <3>1. Len(conns') >= Len(conns) /\ DOMAIN handles' = Procs /\ \A q \in Procs \ {p} : handles'[q] = handles[q]
      BY <1>0, <2>1, <2>2
    <3>2. QED
      BY <2>2, <2>3, <2>4, <3>1, OthersTyped
  <2>6. QED
    BY <1>0, <2>1, <2>2, <2>3, <2>5 DEF TypeOK
<1>11. ASSUME Tick(p) PROVE TypeOK'
  <2>1. /\ Busy(p) /\ op' = [op EXCEPT ![p] = [op[p] EXCEPT !.age = op[p].age + 1]]
        /\ UNCHANGED <<handles, created, ended, allowed, timeout, conns, strange, wire, sent, received>>
    BY <1>11 DEF Tick, network
  <2>2. LET o == [op[p] EXCEPT !.age = op[p].age + 1] IN o \in CallOn(Len(conns)) /\ (o.conn = 0 => o.fn = "accept")
    <3>1. op[p] \in CallOn(Len(conns))
      BY <1>0, <2>1 DEF CallTyped
    <3>2. op[p].age + 1 \in Nat /\ (op[p].conn = 0 => op[p].fn = "accept")
      BY <1>0, <2>1, <3>1 DEF CallTyped, CallOn
    <3>3. Len(conns) \in Nat
      BY <1>0
    <3>4. \A a \in Nat : LET o == [op[p] EXCEPT !.age = a] IN o \in CallOn(Len(conns)) /\ o.conn = op[p].conn /\ o.fn = op[p].fn
      BY <3>1, <3>3, CallEdited
    <3>5. QED
      BY <3>2, <3>4
  <2>3. DOMAIN op' = Procs /\ \A q \in Procs : HandlesTyped(q)' /\ CallTyped(q)'
    BY <1>0, <1>1, <2>1, <2>2
  <2>4. QED
    BY <2>1, <2>3 DEF TypeOK
<1>12. Busy(p) /\ op[p].fn # "accept" => op[p].conn # 0 /\ op[p].conn \in DOMAIN conns
  BY <1>0 DEF CallTyped, CallOn
<1>13. Busy(p) /\ op[p].conn # 0 => op[p].conn \in DOMAIN conns /\ <<op[p].conn, Other(op[p].conn, p)>> \in Ends
  <2>1. SUFFICES ASSUME Busy(p), op[p].conn # 0 PROVE op[p].conn \in DOMAIN conns /\ <<op[p].conn, Other(op[p].conn, p)>> \in Ends
    OBVIOUS
  <2>2. op[p].conn \in DOMAIN conns /\ op[p].conn \in 1..MaxConns
    BY <1>0, <2>1 DEF CallTyped, CallOn
  <2>3. conns[op[p].conn] \in Connection
    BY <1>0, <2>2
  <2>4. Other(op[p].conn, p) \in Peers
    BY <2>3 DEF Other, Connection, Peers
  <2>5. QED
    BY <2>2, <2>4 DEF Ends
<1>14. QED
  BY <1>2, <1>4, <1>6, <1>7, <1>8, <1>9, <1>10, <1>11, <1>12, <1>13
  DEF Progress, ClientShaken, ServerShaken, Write, Sent, Received, Read

(* The steps of another program, which has no handles here.                *)
LEMMA TypeStrange == ASSUME TypeOK, Strange PROVE TypeOK'
PROOF
<1>0. /\ DOMAIN conns = 1..Len(conns) /\ Len(conns) \in Nat /\ conns \in Seq(Connection) /\ Stranger \in Peers
      /\ UNCHANGED <<handles, created, ended, allowed, timeout, op, sent, received>>
      /\ wire \in [Ends -> Seq(Nat)] /\ Len(conns) <= MaxConns /\ MaxConns \in Nat /\ strange \in Nat
  BY NetworkConstants DEF TypeOK, Peers, NetworkConstants, Strange
<1>1. ASSUME conns' \in Seq(Connection), Len(conns') >= Len(conns), Len(conns') <= MaxConns,
             strange' \in Nat, wire' \in [Ends -> Seq(Nat)]
      PROVE  TypeOK'
  <2>1. Len(conns') \in Nat
    BY <1>1
  <2>2. ChannelTo(Len(conns)) \subseteq ChannelTo(Len(conns')) /\ CallOn(Len(conns)) \subseteq CallOn(Len(conns'))
    <3>1. \A m, n \in Nat : m <= n => ChannelTo(m) \subseteq ChannelTo(n) /\ CallOn(m) \subseteq CallOn(n)
      BY DEF ChannelTo, CallOn
    <3>2. QED
      BY <1>0, <1>1, <2>1, <3>1
  <2>3. \A q \in Procs : HandlesTyped(q)' /\ CallTyped(q)'
    BY <1>0, <2>2 DEF TypeOK, HandlesTyped, CallTyped, Names, Busy
  <2>4. QED
    BY <1>0, <1>1, <2>3 DEF TypeOK
<1>2. ASSUME NEW a \in Addresses, Dial(Stranger, a, {"client", "server"}) PROVE TypeOK'
  <2>1. /\ Len(conns) < MaxConns /\ strange' = strange /\ wire' = wire
        /\ conns' \in Seq(Connection) /\ Len(conns') = Len(conns) + 1
    BY <1>0, <1>2, Dialled
  <2>2. QED
    BY <1>0, <1>1, <2>1
<1>3. ASSUME NEW c \in DOMAIN conns, conns' = [conns EXCEPT ![c].shake = "finished"], UNCHANGED <<strange, wire>> PROVE TypeOK'
  <2>1. conns' \in Seq(Connection) /\ Len(conns') = Len(conns)
    BY <1>3, Shaken
  <2>2. QED
    BY <1>0, <1>1, <1>3, <2>1
<1>4. ASSUME NEW c \in DOMAIN conns, NEW b \in 0..(MaxMessage + 1), strange' = strange + 1, UNCHANGED conns,
             wire' = [wire EXCEPT ![<<c, Stranger>>] = Append(@, b)]
      PROVE  TypeOK'
  <2>1. <<c, Stranger>> \in Ends
    BY <1>0 DEF Ends
  <2>2. wire[<<c, Stranger>>] \in Seq(Nat) /\ b \in Nat
    BY <1>0, <2>1
  <2>3. wire' \in [Ends -> Seq(Nat)]
    BY <1>0, <1>4, <2>1, <2>2
  <2>4. QED
    BY <1>0, <1>1, <1>4, <2>3
<1>5. ASSUME NEW c \in DOMAIN conns, CloseEnds({c}, Stranger) PROVE TypeOK'
  BY <1>0, <1>1, <1>5, Closed
<1>6. QED
  BY <1>2, <1>3, <1>4, <1>5 DEF Strange

(* Handles, calls, connections and bytes stay in their domains.            *)
THEOREM NetworkTypes == Spec => []TypeOK
PROOF
<1>1. Init => TypeOK
  BY TypeInit
<1>2. TypeOK /\ [Next]_vars => TypeOK'
  <2>1. ASSUME TypeOK, UNCHANGED vars PROVE TypeOK'
    BY <2>1 DEF TypeOK, vars, HandlesTyped, CallTyped, Names, Busy
  <2>2. QED
    BY <2>1, TypeCall, TypeProgress, TypeStrange DEF Next
<1>3. QED
  BY <1>1, <1>2, PTL DEF Spec

-----------------------------------------------------------------------------
(* How far an end is: a channel exists, and bytes are written and read, at *)
(* an end whose part of the handshake is over.                             *)
Started(c, p) ==
  /\ c \in DOMAIN conns
  /\ \/ p = conns[c].client /\ conns[c].shake \in {"finished", "over"}
     \/ p = conns[c].server /\ conns[c].shake = "over"

ConnOK(c) ==
  /\ conns[c].client # conns[c].server
  /\ conns[c].shake \in {"finished", "over"} => "server" \in conns[c].proves
  /\ conns[c].shake = "over" => "client" \in conns[c].proves
  /\ conns[c].client = Stranger => conns[c].proves = {"client", "server"}
CallOK(p) ==
  Busy(p) =>
    /\ op[p].age <= op[p].deadline
    /\ op[p].fn = "connect" => conns[op[p].conn].client = p /\ conns[op[p].conn].shake \in {"queued", "hello"}
    /\ op[p].fn = "accept" /\ op[p].conn # 0 =>
         conns[op[p].conn].server = p /\ conns[op[p].conn].shake \in {"hello", "finished"}
    /\ op[p].fn \in {"send", "receive"} => Started(op[p].conn, p)
(* A connection is behind one handle, or in the call that took it out.     *)
ChannelsOK(p) ==
  \A h \in Names(p) : Channel(p, h) =>
    /\ Started(handles[p][h].conn, p)
    /\ Busy(p) => op[p].conn # handles[p][h].conn
    /\ \A g \in Names(p) : Channel(p, g) /\ handles[p][g].conn = handles[p][h].conn => g = h
Fresh == \A e \in Ends : ~Started(e[1], e[2]) => sent[e] = << >> /\ received[e] = << >> /\ wire[e] = << >>
Control ==
  /\ \A c \in DOMAIN conns : ConnOK(c)
  /\ \A p \in Procs : CallOK(p) /\ ChannelsOK(p)
  /\ Fresh

(* What a step of p may do to a connection.                                *)
Forward(c, p) ==
  /\ c \in DOMAIN conns' /\ Kept(c)
  /\ \/ conns'[c].shake = conns[c].shake
     \/ conns[c].shake = "queued" /\ conns'[c].shake = "hello"
     \/ conns[c].shake = "hello" /\ conns'[c].shake = "finished" /\ conns[c].client \in {p, Stranger} /\ Proven(c, "server")
     \/ conns[c].shake = "finished" /\ conns'[c].shake = "over" /\ conns[c].server = p /\ Proven(c, "client")
New(c, p) ==
  /\ conns'[c].client = p /\ conns'[c].client # conns'[c].server /\ conns'[c].shake = "queued"
  /\ p = Stranger => conns'[c].proves = {"client", "server"}

LEMMA Monotone == ASSUME NEW c \in DOMAIN conns, NEW p, Forward(c, p), NEW x, Started(c, x) PROVE Started(c, x)'
BY DEF Forward, Started, Kept

LEMMA ConnForward ==
  ASSUME TypeOK, Control, NEW p \in Peers, \A c \in DOMAIN conns : Forward(c, p), \A c \in DOMAIN conns' \ DOMAIN conns : New(c, p)
  PROVE  \A c \in DOMAIN conns' : ConnOK(c)'
BY DEF Control, ConnOK, Forward, Kept, New, Proven

(* The others' calls and channels stay as they are.                        *)
LEMMA OthersForward ==
  ASSUME TypeOK, Control, NEW p \in Peers, \A c \in DOMAIN conns : Forward(c, p),
         NEW q \in Procs, q # p, handles'[q] = handles[q], op'[q] = op[q]
  PROVE  CallOK(q)' /\ ChannelsOK(q)'
PROOF
<1>0. CallOK(q) /\ ChannelsOK(q) /\ CallTyped(q) /\ Stranger # q
  BY NetworkConstants DEF Control, TypeOK, NetworkConstants
<1>1. Busy(q) => op[q].conn \in {0} \union DOMAIN conns /\ (op[q].conn = 0 => op[q].fn = "accept") /\ (Busy(q) <=> Busy(q)')
  BY <1>0 DEF CallTyped, CallOn, TypeOK, Busy
<1>2. \A c \in DOMAIN conns : Started(c, q) => Started(c, q)'
  BY Monotone
<1>3. CallOK(q)'
  BY <1>0, <1>1, <1>2 DEF CallOK, Forward, Kept, Busy
<1>4. ChannelsOK(q)'
  BY <1>0, <1>2 DEF ChannelsOK, Busy, Channel, Names, Started
<1>5. QED
  BY <1>3, <1>4

LEMMA Others ==
  ASSUME TypeOK, NEW p \in Procs, Call(p) \/ Progress(p), NEW q \in Procs \ {p}
  PROVE  handles'[q] = handles[q] /\ op'[q] = op[q]
BY DEF TypeOK, Call, Progress, Allow, SetTimeout, Listen, Connect, Accept, WrongKind, Receive, Send, Close, Drop,
       AcceptSocket, ClientShaken, ServerShaken, Write, Sent, Read, Received, Retire, Tick,
       Insert, Remove, Restore, Start, Return

LEMMA FreshKept ==
  ASSUME TypeOK, Control, NEW p, \A c \in DOMAIN conns : Forward(c, p),
         \A e \in Ends : ~Started(e[1], e[2]) =>
            sent'[e] = sent[e] /\ received'[e] = received[e] /\ (wire'[e] = wire[e] \/ wire'[e] = << >>)
  PROVE  Fresh'
PROOF
<1>1. ASSUME NEW e \in Ends, ~Started(e[1], e[2])' PROVE ~Started(e[1], e[2])
  BY <1>1, Monotone DEF Started
<1>2. QED
  BY <1>1 DEF Control, Fresh

(* The three parts that a step of a program has to show.                   *)
LEMMA ControlOf ==
  ASSUME TypeOK, Control, NEW p \in Procs, Call(p) \/ Progress(p), \A c \in DOMAIN conns : Forward(c, p),
         \A c \in DOMAIN conns' \ DOMAIN conns : New(c, p),
         CallOK(p)', ChannelsOK(p)',
         \A e \in Ends : ~Started(e[1], e[2]) =>
            sent'[e] = sent[e] /\ received'[e] = received[e] /\ (wire'[e] = wire[e] \/ wire'[e] = << >>)
  PROVE  Control'
PROOF
<1>1. p \in Peers
  BY DEF Peers
<1>2. \A q \in Procs \ {p} : CallOK(q)' /\ ChannelsOK(q)'
  BY <1>1, Others, OthersForward
<1>3. \A c \in DOMAIN conns' : ConnOK(c)'
  BY <1>1, ConnForward
<1>4. Fresh'
  BY FreshKept
<1>5. QED
  BY <1>2, <1>3, <1>4 DEF Control

LEMMA StillConns == ASSUME conns' = conns, NEW p PROVE (\A c \in DOMAIN conns : Forward(c, p)) /\ DOMAIN conns' \ DOMAIN conns = {}
BY DEF Forward, Kept

LEMMA ClosedConns ==
  ASSUME TypeOK, NEW p \in Peers, NEW cs, CloseEnds(cs, p)
  PROVE  (\A c \in DOMAIN conns : Forward(c, p)) /\ DOMAIN conns' \ DOMAIN conns = {}
PROOF
<1>1. \A c \in DOMAIN conns : Kept(c) /\ conns'[c].shake = conns[c].shake
  BY Closed
<1>2. DOMAIN conns' = DOMAIN conns
  BY DEF CloseEnds
<1>3. QED
  BY <1>1, <1>2 DEF Forward

LEMMA DialledConns ==
  ASSUME TypeOK, NEW p \in Peers, NEW a \in Addresses, NEW proofs \in SUBSET {"client", "server"}, Dial(p, a, proofs),
         p = Stranger => proofs = {"client", "server"}
  PROVE  (\A c \in DOMAIN conns : Forward(c, p)) /\ (\A c \in DOMAIN conns' \ DOMAIN conns : New(c, p))
         /\ Len(conns) + 1 \in DOMAIN conns' \ DOMAIN conns
PROOF
<1>1. Len(conns') = Len(conns) + 1 /\ conns' \in Seq(Connection) /\ \A d \in DOMAIN conns : conns'[d] = conns[d]
  BY Dialled
<1>2. PICK q \in Procs \ {p} : conns' = Append(conns, [client |-> p, server |-> q, at |-> a, proves |-> proofs,
                                                       shake |-> "queued", open |-> {p, q}])
  BY Dialled
<1>3. conns \in Seq(Connection) /\ DOMAIN conns = 1..Len(conns) /\ Len(conns) \in Nat /\ DOMAIN conns' = 1..(Len(conns) + 1)
  BY <1>1 DEF TypeOK
<1> DEFINE r == [client |-> p, server |-> q, at |-> a, proves |-> proofs, shake |-> "queued", open |-> {p, q}]
<1>4. r.client = p /\ r.server = q /\ r.shake = "queued" /\ r.proves = proofs /\ conns' = Append(conns, r)
  BY <1>2
<1> HIDE DEF r
<1>5. conns'[Len(conns) + 1] = r
  BY <1>3, <1>4
<1>6. \A c \in DOMAIN conns' \ DOMAIN conns : New(c, p)
  BY <1>3, <1>4, <1>5 DEF New
<1>7. \A c \in DOMAIN conns : Forward(c, p)
  BY <1>1, <1>3 DEF Forward, Kept
<1>8. QED
  BY <1>3, <1>6, <1>7

LEMMA ShakenConns ==
  ASSUME TypeOK, NEW c \in DOMAIN conns, NEW x \in {"queued", "hello", "finished", "over"}, NEW p,
         conns' = [conns EXCEPT ![c].shake = x],
         \/ conns[c].shake = "queued" /\ x = "hello"
         \/ conns[c].shake = "hello" /\ x = "finished" /\ conns[c].client \in {p, Stranger} /\ Proven(c, "server")
         \/ conns[c].shake = "finished" /\ x = "over" /\ conns[c].server = p /\ Proven(c, "client")
  PROVE  (\A d \in DOMAIN conns : Forward(d, p)) /\ DOMAIN conns' \ DOMAIN conns = {}
PROOF
<1>1. /\ DOMAIN conns' = DOMAIN conns /\ conns'[c].shake = x /\ Kept(c)
      /\ \A d \in DOMAIN conns \ {c} : conns'[d] = conns[d]
  BY Shaken
<1>2. QED
  BY <1>1 DEF Forward, Kept

(* Channels that were there and stay, and one that is put back or new.     *)
LEMMA ChannelsStay ==
  ASSUME TypeOK, Control, NEW p \in Procs, \A c \in DOMAIN conns : Forward(c, p),
         Names(p)' \subseteq Names(p), \A n \in Names(p)' : handles'[p][n] = handles[p][n],
         Busy(p)' => \A n \in Names(p)' : Channel(p, n) => op'[p].conn # handles[p][n].conn
  PROVE  ChannelsOK(p)'
PROOF
<1>1. ChannelsOK(p)
  BY DEF Control
<1>2. \A c \in DOMAIN conns : Started(c, p) => Started(c, p)'
  BY Monotone
<1>3. QED
  BY <1>1, <1>2 DEF ChannelsOK, Channel, Names, Started

LEMMA ChannelsGain ==
  ASSUME TypeOK, Control, NEW p \in Procs, \A c \in DOMAIN conns : Forward(c, p),
         NEW h, NEW c, NEW x, x.conn = c, Started(c, p)', ~Busy(p)', Busy(p), op[p].conn = c,
         DOMAIN handles'[p] = Names(p) \union {h},
         \A n \in DOMAIN handles'[p] : (handles'[p][n] = handles[p][n] /\ n \in Names(p)) \/ (n = h /\ handles'[p][n] = x)
  PROVE  ChannelsOK(p)'
PROOF
<1>1. ChannelsOK(p)
  BY DEF Control
<1>2. \A d \in DOMAIN conns : Started(d, p) => Started(d, p)'
  BY Monotone
<1>3. QED
  BY <1>1, <1>2 DEF ChannelsOK, Channel, Names, Started

LEMMA ControlCall == ASSUME TypeOK, Control, NEW p \in Procs, Call(p) PROVE Control'
PROOF
<1>0. /\ CallOK(p) /\ ChannelsOK(p) /\ HandlesTyped(p) /\ CallTyped(p) /\ p \in Peers /\ p # Stranger
      /\ timeout[p] \in Nat /\ DOMAIN conns = 1..Len(conns) /\ Len(conns) \in Nat
  BY NetworkConstants DEF Control, TypeOK, Peers, NetworkConstants
<1>1. ASSUME UNCHANGED <<op, conns, sent, received, wire>>, Names(p)' \subseteq Names(p), \A n \in Names(p)' : handles'[p][n] = handles[p][n]
      PROVE  Control'
  <2>1. (\A c \in DOMAIN conns : Forward(c, p)) /\ DOMAIN conns' \ DOMAIN conns = {}
    BY <1>1, StillConns
  <2>2. CallOK(p)'
    BY <1>0, <1>1 DEF CallOK, Busy, Started
  <2>3. Busy(p)' => \A n \in Names(p)' : Channel(p, n) => op'[p].conn # handles[p][n].conn
    BY <1>0, <1>1 DEF ChannelsOK, Busy
  <2>4. ChannelsOK(p)'
    BY <1>1, <2>1, <2>3, ChannelsStay
  <2>5. QED
    BY <1>1, <2>1, <2>2, <2>4, ControlOf
<1>2. ASSUME NEW a \in Addresses, Allow(p, a) PROVE Control'
  BY <1>1, <1>2 DEF Allow, network, Names
<1>3. ASSUME NEW t \in 1..MaxTimeout, SetTimeout(p, t) PROVE Control'
  BY <1>1, <1>3 DEF SetTimeout, network, Names
<1>4. ASSUME NEW a \in Addresses, Listen(p, a) PROVE Control'
  <2> DEFINE x == [kind |-> "listener", at |-> a]
  <2>1. Insert(p, x) /\ x.kind = "listener" /\ ~Busy(p) /\ UNCHANGED <<op, conns, wire, sent, received>>
    BY <1>4 DEF Listen, network, Idle, Busy
  <2> HIDE DEF x
  <2>2. /\ DOMAIN handles'[p] = Names(p) \union {created[p] + 1}
        /\ \A h \in DOMAIN handles'[p] : handles'[p][h] = IF h \in Names(p) THEN handles[p][h] ELSE x
    BY <2>1, Inserted
  <2>3. (\A c \in DOMAIN conns : Forward(c, p)) /\ DOMAIN conns' \ DOMAIN conns = {}
    BY <2>1, StillConns
  <2>4. ChannelsOK(p)'
    BY <1>0, <2>1, <2>2 DEF ChannelsOK, Channel, Names, Busy, Started
  <2>5. CallOK(p)'
    BY <2>1 DEF CallOK, Busy
  <2>6. QED
    BY <2>1, <2>3, <2>4, <2>5, ControlOf
<1>5. ASSUME NEW a \in Addresses, Connect(p, a) PROVE Control'
  <2>1. PICK proofs \in SUBSET {"client", "server"} : Dial(p, a, proofs)
    BY <1>5 DEF Connect
  <2>2. /\ Start(p, "connect", 0, Len(conns) + 1, << >>)
        /\ UNCHANGED <<handles, created, ended, allowed, timeout, sent, received>>
    BY <1>5 DEF Connect
  <2>3. /\ \A c \in DOMAIN conns : Forward(c, p)
        /\ \A c \in DOMAIN conns' \ DOMAIN conns : New(c, p)
        /\ Len(conns) + 1 \in DOMAIN conns' \ DOMAIN conns
    BY <1>0, <2>1, DialledConns
  <2>4. op'[p] = [fn |-> "connect", handle |-> 0, conn |-> Len(conns) + 1, bytes |-> << >>, age |-> 0, deadline |-> timeout[p]]
    BY <2>2, Called
  <2>5. wire' = wire
    BY <1>0, <2>1, Dialled
  <2>6. op'[p].fn = "connect" /\ op'[p].conn = Len(conns) + 1 /\ op'[p].age <= op'[p].deadline
    BY <1>0, <2>4
  <2>7. CallOK(p)'
    BY <2>3, <2>6 DEF CallOK, New
  <2>8. \A n \in Names(p) : Channel(p, n) => op'[p].conn # handles[p][n].conn
    BY <1>0, <2>3, <2>6 DEF ChannelsOK, Started
  <2>9. ChannelsOK(p)'
    BY <2>2, <2>3, <2>8, ChannelsStay DEF Names
  <2>10. QED
    BY <2>2, <2>3, <2>5, <2>7, <2>9, ControlOf
<1>6. ASSUME NEW h \in Names(p), Accept(p, h) PROVE Control'
  <2>1. Start(p, "accept", 0, 0, << >>) /\ UNCHANGED <<handles, conns, wire, sent, received>>
    BY <1>6 DEF Accept, network
  <2>2. op'[p] = [fn |-> "accept", handle |-> 0, conn |-> 0, bytes |-> << >>, age |-> 0, deadline |-> timeout[p]]
    BY <2>1, Called
  <2>3. op'[p].fn = "accept" /\ op'[p].conn = 0 /\ op'[p].age <= op'[p].deadline
    BY <1>0, <2>2
  <2>4. (\A c \in DOMAIN conns : Forward(c, p)) /\ DOMAIN conns' \ DOMAIN conns = {}
    BY <2>1, StillConns
  <2>5. CallOK(p)'
    BY <2>3 DEF CallOK
  <2>6. \A n \in Names(p) : Channel(p, n) => op'[p].conn # handles[p][n].conn
    BY <1>0, <2>3 DEF ChannelsOK, Started
  <2>7. ChannelsOK(p)'
    BY <2>1, <2>4, <2>6, ChannelsStay DEF Names
  <2>8. QED
    BY <2>1, <2>4, <2>5, <2>7, ControlOf
<1>7. ASSUME NEW h \in Names(p), NEW fn \in {"send", "receive"}, NEW b, Channel(p, h), Idle(p), Remove(p, h),
             Start(p, fn, h, handles[p][h].conn, b), UNCHANGED <<conns, wire, received>>,
             \A e \in Ends : ~Started(e[1], e[2]) => sent'[e] = sent[e]
      PROVE  Control'
  <2> DEFINE c == handles[p][h].conn
  <2>1. Started(c, p) /\ \A n \in Names(p) : Channel(p, n) /\ handles[p][n].conn = c => n = h
    BY <1>0, <1>7 DEF ChannelsOK
  <2>2. op'[p] = [fn |-> fn, handle |-> h, conn |-> c, bytes |-> b, age |-> 0, deadline |-> timeout[p]]
    BY <1>7, Called
  <2> HIDE DEF c
  <2>3. op'[p].fn = fn /\ op'[p].conn = c /\ op'[p].age <= op'[p].deadline
    BY <1>0, <2>2
  <2>4. (\A d \in DOMAIN conns : Forward(d, p)) /\ DOMAIN conns' \ DOMAIN conns = {}
    BY <1>7, StillConns
  <2>5. CallOK(p)'
    BY <1>7, <2>1, <2>3 DEF CallOK, Started
  <2>6. DOMAIN handles'[p] = Names(p) \ {h} /\ \A n \in DOMAIN handles'[p] : handles'[p][n] = handles[p][n]
    BY <1>7, Removed
  <2>7. ChannelsOK(p)'
    BY <2>1, <2>3, <2>4, <2>6, ChannelsStay DEF Names
  <2>8. QED
    BY <1>7, <2>4, <2>5, <2>7, ControlOf
<1>8. ASSUME NEW h \in Names(p), Receive(p, h) PROVE Control'
  BY <1>7, <1>8 DEF Receive, network
<1>9. ASSUME NEW h \in Names(p), NEW m \in Messages, Send(p, h, m) PROVE Control'
  <2>1. /\ Start(p, "send", h, handles[p][h].conn, <<Len(m)>> \o m) /\ Remove(p, h) /\ Channel(p, h) /\ Idle(p)
        /\ sent' = [sent EXCEPT ![<<handles[p][h].conn, p>>] = Append(sent[<<handles[p][h].conn, p>>], m)]
        /\ UNCHANGED <<conns, wire, received>>
    BY <1>9 DEF Send, network
  <2>2. Started(handles[p][h].conn, p)
    BY <1>0, <2>1 DEF ChannelsOK
  <2>3. \A e \in Ends : ~Started(e[1], e[2]) => sent'[e] = sent[e]
    BY <2>1, <2>2 DEF TypeOK
  <2>4. QED
    BY <1>7, <2>1, <2>3
<1>10. ASSUME NEW cs, CloseEnds(cs, p), UNCHANGED <<op, sent, received>>, Idle(p), Names(p)' \subseteq Names(p),
              \A n \in Names(p)' : handles'[p][n] = handles[p][n]
       PROVE  Control'
  <2>1. (\A c \in DOMAIN conns : Forward(c, p)) /\ DOMAIN conns' \ DOMAIN conns = {}
    BY <1>0, <1>10, ClosedConns
  <2>2. \A e \in Ends : wire'[e] = wire[e] \/ wire'[e] = << >>
    BY <1>0, <1>10, Closed
  <2>3. ~Busy(p)'
    BY <1>10 DEF Busy, Idle
  <2>4. CallOK(p)'
    BY <2>3 DEF CallOK
  <2>5. ChannelsOK(p)'
    BY <1>10, <2>1, <2>3, ChannelsStay
  <2>6. QED
    BY <1>10, <2>1, <2>2, <2>4, <2>5, ControlOf
<1>11. ASSUME NEW h \in Names(p), WrongKind(p, h) \/ Close(p, h) PROVE Control'
  <2>1. Remove(p, h) /\ CloseEnds(Held(p, {h}), p) /\ UNCHANGED <<op, sent, received>> /\ Idle(p)
    BY <1>11 DEF WrongKind, Close
  <2>2. DOMAIN handles'[p] = Names(p) \ {h} /\ \A n \in DOMAIN handles'[p] : handles'[p][n] = handles[p][n]
    BY <2>1, Removed
  <2>3. QED
    BY <1>10, <2>1, <2>2 DEF Names
<1>12. ASSUME Drop(p) PROVE Control'
  <2>1. /\ CloseEnds(Held(p, Names(p)), p) /\ UNCHANGED <<op, sent, received>> /\ Idle(p)
        /\ handles'[p] = << >>
    BY <1>12 DEF Drop, TypeOK
  <2>2. QED
    BY <1>10, <2>1 DEF Names
<1>13. QED
  BY <1>2, <1>3, <1>4, <1>5, <1>6, <1>8, <1>9, <1>11, <1>12 DEF Call

LEMMA ControlProgress == ASSUME TypeOK, Control, NEW p \in Procs, Progress(p) PROVE Control'
PROOF
<1>0. /\ CallOK(p) /\ ChannelsOK(p) /\ HandlesTyped(p) /\ CallTyped(p) /\ p \in Peers /\ p # Stranger
      /\ DOMAIN conns = 1..Len(conns) /\ Len(conns) \in Nat /\ DOMAIN op = Procs
  BY NetworkConstants DEF Control, TypeOK, Peers, NetworkConstants
<1>1. Busy(p) => /\ op[p] \in CallOn(Len(conns)) /\ op[p].age \in Nat /\ op[p].deadline \in Nat /\ op[p].age <= op[p].deadline
                 /\ op[p].conn \in {0} \union DOMAIN conns /\ (op[p].conn = 0 => op[p].fn = "accept")
  BY <1>0, NetworkConstants DEF CallTyped, CallOn, CallOK, NetworkConstants
<1>2. ASSUME Busy(p), NEW o, op' = [op EXCEPT ![p] = o], o.fn = op[p].fn, o.conn = op[p].conn, o.age <= o.deadline,
             UNCHANGED <<handles, conns, sent, received>>,
             \A e \in Ends : ~Started(e[1], e[2]) => wire'[e] = wire[e] \/ wire'[e] = << >>
      PROVE  Control'
  <2>1. (\A c \in DOMAIN conns : Forward(c, p)) /\ DOMAIN conns' \ DOMAIN conns = {}
    BY <1>2, StillConns
  <2>2. op'[p] = o
    BY <1>0, <1>2
  <2>3. CallOK(p)'
    BY <1>0, <1>2, <2>2 DEF CallOK, Started
  <2>4. \A n \in Names(p) : Channel(p, n) => op'[p].conn # handles[p][n].conn
    BY <1>0, <1>2, <2>2 DEF ChannelsOK
  <2>5. ChannelsOK(p)'
    BY <1>2, <2>1, <2>4, ChannelsStay DEF Names
  <2>6. QED
    BY <1>2, <2>1, <2>3, <2>5, ControlOf
<1>3. ASSUME Busy(p), NEW c, op[p].conn = c, Started(c, p)', Return(p), \A d \in DOMAIN conns : Forward(d, p), DOMAIN conns' \ DOMAIN conns = {},
             Insert(p, [kind |-> "channel", conn |-> c]) \/ \E h : Restore(p, h, [kind |-> "channel", conn |-> c]),
             \A e \in Ends : ~Started(e[1], e[2]) => UNCHANGED <<sent[e], received[e], wire[e]>>
      PROVE  Control'
  <2>1. op'[p] = None
    BY <1>3, Called
  <2>2. CallOK(p)' /\ ~Busy(p)'
    BY <2>1 DEF CallOK, Busy
  <2> DEFINE x == [kind |-> "channel", conn |-> c]
  <2>3. PICK h : /\ DOMAIN handles'[p] = Names(p) \union {h}
                 /\ \A n \in DOMAIN handles'[p] : (handles'[p][n] = handles[p][n] /\ n \in Names(p)) \/ (n = h /\ handles'[p][n] = x)
    <3>1. CASE Insert(p, x)
      <4> HIDE DEF x
      <4>1. /\ DOMAIN handles'[p] = Names(p) \union {created[p] + 1}
            /\ \A n \in DOMAIN handles'[p] : handles'[p][n] = IF n \in Names(p) THEN handles[p][n] ELSE x
        BY <3>1, Inserted
      <4>2. \A n \in DOMAIN handles'[p] : (handles'[p][n] = handles[p][n] /\ n \in Names(p)) \/ (n = created[p] + 1 /\ handles'[p][n] = x)
        BY <4>1
      <4>3. QED
        BY <4>1, <4>2
    <3>2. CASE \E h : Restore(p, h, x)
      <4> HIDE DEF x
      <4>1. PICK h : Restore(p, h, x)
        BY <3>2
      <4>2. QED
        BY <4>1, Restored
    <3>3. QED
      BY <1>3, <3>1, <3>2
  <2>4. ChannelsOK(p)'
    <3>1. x.conn = c
      OBVIOUS
    <3> HIDE DEF x
    <3>2. Busy(p) /\ op[p].conn = c /\ Started(c, p)' /\ \A d \in DOMAIN conns : Forward(d, p)
      BY <1>3
    <3>3. QED
      BY <2>2, <2>3, <3>1, <3>2, ChannelsGain
  <2>5. QED
    BY <1>3, <2>2, <2>4, ControlOf
<1>4. ASSUME NEW c \in DOMAIN conns, AcceptSocket(p, c) PROVE Control'
  <2>1. /\ Busy(p) /\ op[p].fn = "accept" /\ op' = [op EXCEPT ![p] = [op[p] EXCEPT !.conn = c]]
        /\ conns' = [conns EXCEPT ![c].shake = "hello"] /\ conns[c].server = p /\ conns[c].shake = "queued"
        /\ UNCHANGED <<handles, wire, sent, received>>
    BY <1>4 DEF AcceptSocket
  <2>2. (\A d \in DOMAIN conns : Forward(d, p)) /\ DOMAIN conns' \ DOMAIN conns = {}
    BY <2>1, ShakenConns
  <2>3. op'[p].fn = "accept" /\ op'[p].conn = c /\ op'[p].age <= op'[p].deadline
    <3>1. c \in 0..Len(conns) /\ op[p] \in CallOn(Len(conns)) /\ Len(conns) \in Nat
      BY <1>0, <1>1, <2>1
    <3>2. \A b \in 0..Len(conns) : LET y == [op[p] EXCEPT !.conn = b] IN
             y.conn = b /\ y.fn = op[p].fn /\ y.age = op[p].age /\ y.deadline = op[p].deadline
      BY <3>1, CallEdited
    <3>3. op'[p] = [op[p] EXCEPT !.conn = c]
      BY <1>0, <2>1
    <3>4. QED
      BY <1>1, <2>1, <3>1, <3>2, <3>3
  <2>4. conns'[c].shake = "hello" /\ conns'[c].server = p
    BY <2>1, Shaken DEF Kept
  <2>5. CallOK(p)'
    BY <1>0, <2>3, <2>4 DEF CallOK
  <2>6. \A n \in Names(p) : Channel(p, n) => op'[p].conn # handles[p][n].conn
    <3>1. ~Started(c, p)
      BY <2>1, <1>4 DEF Started, Control, ConnOK
    <3>2. QED
      BY <1>0, <2>3, <3>1 DEF ChannelsOK
  <2>7. ChannelsOK(p)'
    BY <2>1, <2>2, <2>6, ChannelsStay DEF Names
  <2>8. QED
    BY <2>1, <2>2, <2>5, <2>7, ControlOf
<1>5. ASSUME ClientShaken(p) PROVE Control'
  <2>0. PICK c : c = op[p].conn
    OBVIOUS
  <2>1. /\ Busy(p) /\ op[p].fn = "connect" /\ conns[c].shake = "hello" /\ Proven(c, "server")
        /\ conns' = [conns EXCEPT ![c].shake = "finished"] /\ Insert(p, [kind |-> "channel", conn |-> c]) /\ Return(p)
        /\ UNCHANGED <<wire, sent, received>>
    BY <1>5, <2>0 DEF ClientShaken
  <2>2. c \in DOMAIN conns /\ conns[c].client = p
    BY <1>0, <1>1, <2>0, <2>1 DEF CallOK
  <2>3. (\A d \in DOMAIN conns : Forward(d, p)) /\ DOMAIN conns' \ DOMAIN conns = {}
    BY <2>1, <2>2, ShakenConns
  <2>4. Started(c, p)'
    BY <2>1, <2>2, Shaken DEF Started, Kept
  <2>5. QED
    BY <1>3, <2>0, <2>1, <2>3, <2>4
<1>6. ASSUME ServerShaken(p) PROVE Control'
  <2>0. PICK c : c = op[p].conn
    OBVIOUS
  <2>1. /\ Busy(p) /\ op[p].fn = "accept" /\ c # 0 /\ conns[c].shake = "finished" /\ Proven(c, "client")
        /\ conns' = [conns EXCEPT ![c].shake = "over"] /\ Insert(p, [kind |-> "channel", conn |-> c]) /\ Return(p)
        /\ UNCHANGED <<wire, sent, received>>
    BY <1>6, <2>0 DEF ServerShaken
  <2>2. c \in DOMAIN conns /\ conns[c].server = p
    BY <1>0, <1>1, <2>0, <2>1 DEF CallOK
  <2>3. (\A d \in DOMAIN conns : Forward(d, p)) /\ DOMAIN conns' \ DOMAIN conns = {}
    BY <2>1, <2>2, ShakenConns
  <2>4. Started(c, p)'
    BY <2>1, <2>2, Shaken DEF Started, Kept
  <2>5. QED
    BY <1>3, <2>0, <2>1, <2>3, <2>4
<1>7. ASSUME Write(p) PROVE Control'
  <2>1. /\ Busy(p) /\ op[p].fn = "send" /\ op[p].bytes # << >>
        /\ wire' = [wire EXCEPT ![<<op[p].conn, p>>] = Append(wire[<<op[p].conn, p>>], Head(op[p].bytes))]
        /\ op' = [op EXCEPT ![p] = [op[p] EXCEPT !.bytes = Tail(op[p].bytes)]]
        /\ UNCHANGED <<handles, conns, sent, received>>
    BY <1>7 DEF Write
  <2>2. Started(op[p].conn, p)
    BY <1>0, <2>1 DEF CallOK
  <2>3. \A e \in Ends : ~Started(e[1], e[2]) => wire'[e] = wire[e]
    BY <2>1, <2>2 DEF TypeOK
  <2> DEFINE o == [op[p] EXCEPT !.bytes = Tail(op[p].bytes)]
  <2>4. o.fn = op[p].fn /\ o.conn = op[p].conn /\ o.age <= o.deadline
    BY <1>1, <2>1 DEF CallOn
  <2> HIDE DEF o
  <2>5. QED
    BY <1>2, <2>1, <2>3, <2>4 DEF o
<1>8. ASSUME Sent(p) PROVE Control'
  <2>0. PICK c : c = op[p].conn
    OBVIOUS
  <2>1. /\ Busy(p) /\ op[p].fn = "send" /\ Restore(p, op[p].handle, [kind |-> "channel", conn |-> c]) /\ Return(p)
        /\ UNCHANGED <<conns, wire, sent, received>>
    BY <1>8, <2>0 DEF Sent, network
  <2>2. Started(c, p)'
    BY <1>0, <2>0, <2>1 DEF CallOK, Started
  <2>3. (\A d \in DOMAIN conns : Forward(d, p)) /\ DOMAIN conns' \ DOMAIN conns = {}
    BY <2>1, StillConns
  <2>4. QED
    BY <1>3, <2>0, <2>1, <2>2, <2>3
<1>9. ASSUME Read(p) PROVE Control'
  <2> DEFINE e == <<op[p].conn, Other(op[p].conn, p)>>
             o == [op[p] EXCEPT !.bytes = Append(op[p].bytes, Head(wire[e])), !.deadline = op[p].deadline]
  <2>1. /\ Busy(p) /\ op[p].fn = "receive" /\ wire[e] # << >>
        /\ op' = [op EXCEPT ![p].bytes = Append(op[p].bytes, Head(wire[e])), ![p].deadline = op[p].deadline]
        /\ wire' = [wire EXCEPT ![e] = Tail(wire[e])]
        /\ UNCHANGED <<handles, conns, sent, received>>
    BY <1>9 DEF Read, Deadline
  <2>2. op' = [op EXCEPT ![p] = o]
    BY <1>0, <2>1
  <2>3. o.fn = op[p].fn /\ o.conn = op[p].conn /\ o.age <= o.deadline
    BY <1>1, <2>1 DEF CallOn
  <2>4. ASSUME NEW f \in Ends, ~Started(f[1], f[2]) PROVE wire'[f] = wire[f]
    <3>1. wire[f] = << >>
      BY <2>4 DEF Control, Fresh
    <3>2. f # e
      BY <2>1, <3>1
    <3>3. QED
      BY <2>1, <3>2 DEF TypeOK
  <2> HIDE DEF o, e
  <2>5. QED
    BY <1>2, <2>1, <2>2, <2>3, <2>4
<1>10. ASSUME Received(p) PROVE Control'
  <2>0. PICK c : c = op[p].conn
    OBVIOUS
  <2>1. /\ Busy(p) /\ op[p].fn = "receive" /\ Restore(p, op[p].handle, [kind |-> "channel", conn |-> c]) /\ Return(p)
        /\ received' = [received EXCEPT ![<<c, p>>] = Append(received[<<c, p>>], Tail(op[p].bytes))]
        /\ UNCHANGED <<conns, wire, sent>>
    BY <1>10, <2>0 DEF Received, network
  <2>2. Started(c, p)
    BY <1>0, <2>0, <2>1 DEF CallOK
  <2>3. Started(c, p)'
    BY <2>1, <2>2 DEF Started
  <2>4. (\A d \in DOMAIN conns : Forward(d, p)) /\ DOMAIN conns' \ DOMAIN conns = {}
    BY <2>1, StillConns
  <2>5. \A e \in Ends : ~Started(e[1], e[2]) => received'[e] = received[e]
    BY <2>1, <2>2 DEF TypeOK
  <2>6. QED
    BY <1>3, <2>0, <2>1, <2>3, <2>4, <2>5
<1>11. ASSUME Retire(p) PROVE Control'
  <2>1. Return(p) /\ CloseEnds({op[p].conn} \ {0}, p) /\ UNCHANGED <<handles, sent, received>>
    BY <1>11 DEF Retire
  <2>2. (\A d \in DOMAIN conns : Forward(d, p)) /\ DOMAIN conns' \ DOMAIN conns = {}
    BY <1>0, <2>1, ClosedConns
  <2>3. op'[p] = None
    BY <2>1, Called
  <2>4. CallOK(p)' /\ ~Busy(p)'
    BY <2>3 DEF CallOK, Busy
  <2>5. ChannelsOK(p)'
    BY <2>1, <2>2, <2>4, ChannelsStay DEF Names
  <2>6. \A e \in Ends : wire'[e] = wire[e] \/ wire'[e] = << >>
    BY <1>0, <2>1, Closed
  <2>7. QED
    BY <2>1, <2>2, <2>4, <2>5, <2>6, ControlOf
<1>12. ASSUME Tick(p) PROVE Control'
  <2> DEFINE o == [op[p] EXCEPT !.age = op[p].age + 1]
  <2>1. /\ Busy(p) /\ InTime(p) /\ op' = [op EXCEPT ![p] = o]
        /\ UNCHANGED <<handles, conns, wire, sent, received>>
    BY <1>12 DEF Tick, network
  <2>2. o.fn = op[p].fn /\ o.conn = op[p].conn /\ o.age <= o.deadline
    <3>1. o.fn = op[p].fn /\ o.conn = op[p].conn /\ o.deadline = op[p].deadline /\ o.age = op[p].age + 1
      BY <1>1, <2>1 DEF CallOn
    <3>2. QED
      BY <1>1, <2>1, <3>1 DEF InTime
  <2> HIDE DEF o
  <2>3. QED
    BY <1>2, <2>1, <2>2
<1>13. QED
  BY <1>4, <1>5, <1>6, <1>7, <1>8, <1>9, <1>10, <1>11, <1>12 DEF Progress

LEMMA ControlStrange == ASSUME TypeOK, Control, Strange PROVE Control'
PROOF
<1>0. /\ Stranger \in Peers /\ Stranger \notin Procs /\ UNCHANGED <<handles, op, sent, received>>
      /\ DOMAIN conns = 1..Len(conns) /\ Len(conns) \in Nat
  BY NetworkConstants DEF Peers, Strange, NetworkConstants, TypeOK
<1>1. ASSUME \A c \in DOMAIN conns : Forward(c, Stranger), \A c \in DOMAIN conns' \ DOMAIN conns : New(c, Stranger),
             \A e \in Ends : ~Started(e[1], e[2]) => wire'[e] = wire[e] \/ wire'[e] = << >>
      PROVE  Control'
  <2>1. \A q \in Procs : CallOK(q)' /\ ChannelsOK(q)'
    BY <1>0, <1>1, OthersForward
  <2>2. \A c \in DOMAIN conns' : ConnOK(c)'
    BY <1>0, <1>1, ConnForward
  <2>3. Fresh'
    BY <1>0, <1>1, FreshKept
  <2>4. QED
    BY <2>1, <2>2, <2>3 DEF Control
<1>2. ASSUME NEW a \in Addresses, Dial(Stranger, a, {"client", "server"}) PROVE Control'
  <2>1. (\A c \in DOMAIN conns : Forward(c, Stranger)) /\ (\A c \in DOMAIN conns' \ DOMAIN conns : New(c, Stranger))
    BY <1>0, <1>2, DialledConns
  <2>2. wire' = wire
    BY <1>0, <1>2, Dialled
  <2>3. QED
    BY <1>1, <2>1, <2>2
<1>3. ASSUME NEW c \in DOMAIN conns, conns[c].client = Stranger, conns[c].shake = "hello",
             conns' = [conns EXCEPT ![c].shake = "finished"], UNCHANGED <<strange, wire>>
      PROVE Control'
  <2>1. Proven(c, "server")
    BY <1>3 DEF Control, ConnOK, Proven
  <2>2. (\A d \in DOMAIN conns : Forward(d, Stranger)) /\ DOMAIN conns' \ DOMAIN conns = {}
    BY <1>3, <2>1, ShakenConns
  <2>3. QED
    BY <1>1, <1>3, <2>2
<1>4. ASSUME NEW c \in DOMAIN conns, NEW b, conns[c].client = Stranger, conns[c].shake = "over", UNCHANGED conns,
             wire' = [wire EXCEPT ![<<c, Stranger>>] = Append(wire[<<c, Stranger>>], b)]
      PROVE  Control'
  <2>1. (\A d \in DOMAIN conns : Forward(d, Stranger)) /\ DOMAIN conns' \ DOMAIN conns = {}
    BY <1>4, StillConns
  <2>2. Started(c, Stranger)
    BY <1>4 DEF Started
  <2>3. \A e \in Ends : ~Started(e[1], e[2]) => wire'[e] = wire[e]
    BY <1>4, <2>2 DEF TypeOK
  <2>4. QED
    BY <1>1, <2>1, <2>3
<1>5. ASSUME NEW c \in DOMAIN conns, CloseEnds({c}, Stranger) PROVE Control'
  <2>1. (\A d \in DOMAIN conns : Forward(d, Stranger)) /\ DOMAIN conns' \ DOMAIN conns = {}
    BY <1>0, <1>5, ClosedConns
  <2>2. \A e \in Ends : wire'[e] = wire[e] \/ wire'[e] = << >>
    BY <1>0, <1>5, Closed
  <2>3. QED
    BY <1>1, <2>1, <2>2
<1>6. QED
  BY <1>2, <1>3, <1>4, <1>5 DEF Strange

LEMMA ControlInit == Init => Control
BY DEF Init, Control, Fresh, CallOK, ChannelsOK, Names, Busy

(* A connection is had by at most one handle or call of each of its ends,  *)
(* which may use it only after its own part of the handshake, and nothing  *)
(* was written on it before.                                               *)
THEOREM NetworkControl == Spec => [](TypeOK /\ Control)
PROOF
<1>1. Init => Control
  BY ControlInit
<1>2. TypeOK /\ Control /\ [Next]_vars => Control'
  <2>1. ASSUME Control, UNCHANGED vars PROVE Control'
    BY <2>1 DEF Control, vars, ConnOK, CallOK, ChannelsOK, Fresh, Started, Names, Busy, Channel
  <2>2. QED
    BY <2>1, ControlCall, ControlProgress, ControlStrange DEF Next
<1>3. QED
  BY <1>1, <1>2, NetworkTypes, PTL DEF Spec

(* No call lasts longer than the time-out that was set when it began       *)
(* (DeadlineSocket, networking.rs).                                        *)
THEOREM SpecDeadlineAbsolute == Spec => []DeadlineAbsolute
PROOF
<1>1. TypeOK /\ Control => DeadlineAbsolute
  BY NetworkConstants DEF TypeOK, Control, CallTyped, CallOn, CallOK, DeadlineAbsolute, NetworkConstants
<1>2. QED
  BY <1>1, NetworkControl, PTL

-----------------------------------------------------------------------------
(* The n first of w are those of T after the first f.                      *)
Part(w, n, T, f) == \A i \in 1..n : w[i] = T[f + i]

LEMMA PartMore ==
  ASSUME NEW w, NEW n \in Nat, NEW T, NEW f \in Nat, Part(w, n, T, f),
         NEW v, \A i \in 1..n : v[i] = w[i], v[n + 1] = T[f + n + 1]
  PROVE  Part(v, n + 1, T, f)
BY DEF Part

LEMMA PartFirst == ASSUME NEW w, NEW n \in Nat \ {0}, NEW T, NEW f \in Nat, Part(w, n, T, f) PROVE w[1] = T[f + 1]
BY DEF Part

LEMMA PartRest ==
  ASSUME NEW w, NEW n \in Nat \ {0}, NEW T, NEW f \in Nat, Part(w, n, T, f), NEW v, \A i \in 1..(n - 1) : v[i] = w[i + 1]
  PROVE  Part(v, n - 1, T, f + 1)
PROOF
<1>1. ASSUME NEW i \in 1..(n - 1) PROVE v[i] = T[(f + 1) + i]
  <2>1. i + 1 \in 1..n /\ f + (i + 1) = (f + 1) + i
    OBVIOUS
  <2>2. QED
    BY <2>1 DEF Part
<1>2. QED
  BY <1>1 DEF Part

LEMMA PartLonger ==
  ASSUME NEW w, NEW n \in Nat, NEW T, NEW f \in Nat, Part(w, n, T, f), NEW l \in Nat, f + n <= l, NEW U, \A i \in 1..l : U[i] = T[i]
  PROVE  Part(w, n, U, f)
BY DEF Part

(* Sequences, by their elements.                                           *)
LEMMA Sequence == ASSUME NEW S, NEW w \in Seq(S) PROVE Len(w) \in Nat /\ Part(w, Len(w), w, 0)
PROOF
<1>1. \A i \in 1..Len(w) : 0 + i = i
  OBVIOUS
<1>2. QED
  BY <1>1 DEF Part
LEMMA Appended == ASSUME NEW S, NEW w \in Seq(S), NEW b \in S
                  PROVE  LET v == Append(w, b) IN
                           v \in Seq(S) /\ Len(v) = Len(w) + 1 /\ v[Len(w) + 1] = b /\ \A i \in 1..Len(w) : v[i] = w[i]
OBVIOUS
LEMMA Shortened == ASSUME NEW S, NEW w \in Seq(S), w # << >>
                   PROVE  /\ Len(w) \in Nat \ {0} /\ Head(w) = w[1] /\ w[1] \in S /\ Tail(w) \in Seq(S) /\ Len(Tail(w)) = Len(w) - 1
                          /\ \A i \in 1..(Len(w) - 1) : Tail(w)[i] = w[i + 1]
OBVIOUS
LEMMA Joint == ASSUME NEW S, NEW w \in Seq(S), NEW v \in Seq(S)
               PROVE  LET u == w \o v IN
                        u \in Seq(S) /\ Len(u) = Len(w) + Len(v) /\ (\A i \in 1..Len(w) : u[i] = w[i]) /\ \A i \in 1..Len(v) : u[Len(w) + i] = v[i]
OBVIOUS
LEMMA Framing == ASSUME NEW m \in Seq(Nat)
                 PROVE  LET f == <<Len(m)>> \o m IN
                          f \in Seq(Nat) /\ Len(f) = 1 + Len(m) /\ f[1] = Len(m) /\ \A i \in 1..Len(m) : f[1 + i] = m[i]
OBVIOUS
LEMMA SameElements == ASSUME NEW S, NEW w \in Seq(S), NEW v \in Seq(S), Len(w) = Len(v), \A i \in 1..Len(w) : w[i] = v[i]
                      PROVE  w = v
OBVIOUS

(* The bytes of a connection.  T is every byte that the messages ms of one *)
(* end are written as, and message i begins after s[i] of them.            *)
Begins(T, s, i, m) == s[i + 1] = s[i] + 1 + Len(m) /\ T[s[i] + 1] = Len(m) /\ Part(m, Len(m), T, s[i] + 1)
Framed(T, s, ms) ==
  /\ T \in Seq(Nat) /\ s \in [1..(Len(ms) + 1) -> 0..Len(T)] /\ s[1] = 0 /\ s[Len(ms) + 1] = Len(T)
  /\ \A i \in 1..Len(ms) : Begins(T, s, i, ms[i])

(* The wire w carries a part of them, from the first from on.  While the   *)
(* end that writes has the connection, what is left of its call follows on *)
(* the wire to the last byte; while the end that reads has it, it was      *)
(* given the messages rs, and got the bytes from there to the wire.        *)
Carried(T, s, from, ms, rs, w, writes, left, reads, got) ==
  /\ Framed(T, s, ms) /\ from \in Nat /\ from + Len(w) <= Len(T) /\ Part(w, Len(w), T, from)
  /\ Len(rs) <= Len(ms) /\ Part(rs, Len(rs), ms, 0)
  /\ writes => from + Len(w) + Len(left) = Len(T) /\ Part(left, Len(left), T, from + Len(w))
  /\ reads => from = s[Len(rs) + 1] + Len(got) /\ Part(got, Len(got), T, s[Len(rs) + 1])

LEMMA CarriedNothing ==
  ASSUME NEW writes, NEW reads
  PROVE  \E T, s, from : Carried(T, s, from, << >>, << >>, << >>, writes, << >>, reads, << >>)
PROOF
<1> DEFINE s == [i \in 1..1 |-> 0]
<1>1. s \in [1..1 -> 0..0] /\ s[1] = 0
  OBVIOUS
<1>2. << >> \in Seq(Nat) /\ Len(<< >>) = 0
  OBVIOUS
<1>3. \A T, f : Part(<< >>, 0, T, f)
  BY DEF Part
<1> HIDE DEF s
<1>4. Framed(<< >>, s, << >>)
  BY <1>1, <1>2 DEF Framed
<1>5. Carried(<< >>, s, 0, << >>, << >>, << >>, writes, << >>, reads, << >>)
  BY <1>1, <1>2, <1>3, <1>4 DEF Carried
<1>6. QED
  BY <1>5

LEMMA CarriedLess ==
  ASSUME NEW T, NEW s, NEW from, NEW ms, NEW rs, NEW w, NEW writes, NEW left, NEW reads, NEW got,
         Carried(T, s, from, ms, rs, w, writes, left, reads, got),
         NEW writes2, NEW left2, NEW reads2, NEW got2,
         writes2 => writes /\ left2 = left, reads2 => reads /\ got2 = got
  PROVE  Carried(T, s, from, ms, rs, w, writes2, left2, reads2, got2)
BY DEF Carried

LEMMA CarriedLost ==
  ASSUME NEW T, NEW s, NEW from, NEW ms, NEW rs, NEW w \in Seq(Nat), NEW writes, NEW left, NEW reads, NEW got,
         Carried(T, s, from, ms, rs, w, writes, left, reads, got),
         NEW writes2, NEW left2, NEW reads2, NEW got2, ~writes2, reads2 => reads /\ got2 = got
  PROVE  Carried(T, s, from, ms, rs, << >>, writes2, left2, reads2, got2)
PROOF
<1>1. from \in Nat /\ from + Len(w) <= Len(T) /\ Len(w) \in Nat /\ T \in Seq(Nat) /\ Len(T) \in Nat
  BY DEF Carried, Framed
<1>2. Len(<< >>) = 0 /\ from + 0 <= Len(T)
  BY <1>1
<1>3. \A f : Part(<< >>, 0, T, f)
  BY DEF Part
<1>4. QED
  BY <1>2, <1>3 DEF Carried

Frame(m) == <<Len(m)>> \o m
Agree(u, s, n) == \A i \in 1..n : u[i] = s[i]
Further(s, n, l) == [i \in 1..(n + 2) |-> IF i = n + 2 THEN l ELSE s[i]]

LEMMA FramedMore ==
  ASSUME NEW T, NEW s, NEW ms \in Seq(Seq(Nat)), Framed(T, s, ms), NEW m \in Seq(Nat),
         NEW f, NEW U, NEW u, f = Frame(m), U = T \o f,
         u = Further(s, Len(ms), Len(U))
  PROVE  Framed(U, u, Append(ms, m)) /\ Agree(u, s, Len(ms) + 1)
PROOF
<1>1. f \in Seq(Nat) /\ Len(f) = 1 + Len(m) /\ f[1] = Len(m) /\ \A i \in 1..Len(m) : f[1 + i] = m[i]
  BY Framing DEF Frame
<1>2. T \in Seq(Nat) /\ s[1] = 0 /\ s[Len(ms) + 1] = Len(T)
  BY DEF Framed
<1>3. PICK n \in Nat : n = Len(ms)
  OBVIOUS
<1>4. PICK l \in Nat : l = Len(T)
  BY <1>2
<1>5. PICK k \in Nat : k = Len(m)
  OBVIOUS
<1>6. s \in [1..(n + 1) -> 0..l] /\ s[n + 1] = l
  BY <1>2, <1>3, <1>4 DEF Framed
<1>7. U \in Seq(Nat) /\ Len(U) = l + 1 + k /\ \A i \in 1..l : U[i] = T[i]
  <2>1. LET x == T \o f IN x \in Seq(Nat) /\ Len(x) = Len(T) + Len(f) /\ \A i \in 1..Len(T) : x[i] = T[i]
    BY <1>1, <1>2, Joint
  <2>2. QED
    BY <1>1, <1>4, <1>5, <2>1
<1>8. U[l + 1] = k /\ Part(m, k, U, l + 1)
  <2>1. LET x == T \o f IN \A i \in 1..Len(f) : x[Len(T) + i] = f[i]
    BY <1>1, <1>2, Joint
  <2>2. \A i \in 1..(1 + k) : U[l + i] = f[i]
    BY <1>1, <1>4, <1>5, <2>1
  <2>3. ASSUME NEW i \in 1..k PROVE m[i] = U[(l + 1) + i]
    <3>1. 1 + i \in 1..(1 + k) /\ l + (1 + i) = (l + 1) + i
      OBVIOUS
    <3>2. f[1 + i] = m[i]
      BY <1>1, <1>5
    <3>3. QED
      BY <2>2, <3>1, <3>2
  <2>4. U[l + 1] = f[1]
    <3>1. 1 \in 1..(1 + k)
      OBVIOUS
    <3>2. QED
      BY <2>2, <3>1
  <2>5. QED
    BY <1>1, <1>5, <2>3, <2>4 DEF Part
<1>9. PICK ns : ns = Append(ms, m)
  OBVIOUS
<1>10. ns \in Seq(Seq(Nat)) /\ Len(ns) = n + 1 /\ ns[n + 1] = m /\ \A i \in 1..n : ns[i] = ms[i]
  BY <1>3, <1>9, Appended
<1>11. u = [i \in 1..(n + 2) |-> IF i = n + 2 THEN l + 1 + k ELSE s[i]]
  BY <1>3, <1>7 DEF Further
<1>12. u \in [1..(n + 2) -> 0..(l + 1 + k)] /\ u[n + 2] = l + 1 + k /\ \A i \in 1..(n + 1) : u[i] = s[i]
  <2>1. ASSUME NEW i \in 1..(n + 2) PROVE u[i] \in 0..(l + 1 + k)
    <3>1. CASE i = n + 2
      <4>1. u[i] = l + 1 + k
        BY <1>11, <3>1
      <4>2. l + 1 + k \in 0..(l + 1 + k)
        OBVIOUS
      <4>3. QED
        BY <4>1, <4>2
    <3>2. CASE i # n + 2
      <4>1. i \in 1..(n + 1) /\ u[i] = s[i]
        BY <1>11, <3>2
      <4>2. s[i] \in 0..l
        BY <1>6, <4>1
      <4>3. QED
        BY <4>1, <4>2
    <3>3. QED
      BY <3>1, <3>2
  <2>2. u[n + 2] = l + 1 + k /\ \A i \in 1..(n + 1) : u[i] = s[i]
    BY <1>11
  <2>3. QED
    BY <1>11, <2>1, <2>2
<1>13. ASSUME NEW i \in 1..(n + 1) PROVE Begins(U, u, i, ns[i])
  <2>1. CASE i = n + 1
    <3>1. u[i] = l /\ u[i + 1] = l + 1 + k /\ ns[i] = m
      <4>1. u[n + 1] = s[n + 1] /\ (n + 1) + 1 = n + 2
        BY <1>12
      <4>2. QED
        BY <1>6, <1>10, <1>12, <2>1, <4>1
    <3>2. QED
      BY <1>5, <1>8, <3>1 DEF Begins
  <2>2. CASE i # n + 1
    <3>1. i \in 1..n /\ i \in 1..(n + 1) /\ i + 1 \in 1..(n + 1)
      BY <2>2
    <3>2. ns[i] = ms[i] /\ u[i] = s[i] /\ u[i + 1] = s[i + 1]
      BY <1>10, <1>12, <3>1
    <3>3. Begins(T, s, i, ms[i])
      BY <1>3, <3>1 DEF Framed
    <3>4. PICK a : a = s[i]
      OBVIOUS
    <3>5. PICK b : b = s[i + 1]
      OBVIOUS
    <3>6. a \in 0..l /\ b \in 0..l
      BY <1>6, <3>1, <3>4, <3>5
    <3>7. PICK x : x = ms[i]
      OBVIOUS
    <3>8. Len(x) \in Nat
      BY <1>3, <3>1, <3>7
    <3>9. b = a + 1 + Len(x) /\ T[a + 1] = Len(x) /\ Part(x, Len(x), T, a + 1)
      BY <3>3, <3>4, <3>5, <3>7 DEF Begins
    <3>10. a + 1 \in 1..l /\ (a + 1) + Len(x) <= l
      BY <3>6, <3>8, <3>9
    <3>11. U[a + 1] = T[a + 1]
      BY <1>7, <3>10
    <3>12. Part(x, Len(x), U, a + 1)
      <4>1. PICK e \in Nat : e = a + 1
        BY <3>6
      <4>2. PICK z \in Nat : z = Len(x)
        BY <3>8
      <4>3. Part(x, z, T, e) /\ e + z <= l
        BY <3>9, <3>10, <4>1, <4>2
      <4>4. Part(x, z, U, e)
        BY <1>7, <4>3, PartLonger
      <4>5. QED
        BY <4>1, <4>2, <4>4
    <3>13. QED
      BY <3>2, <3>4, <3>5, <3>7, <3>9, <3>11, <3>12 DEF Begins
  <2>3. QED
    BY <2>1, <2>2
<1>14. u[1] = 0
  <2>1. 1 \in 1..(n + 1)
    OBVIOUS
  <2>2. QED
    BY <1>2, <1>12, <2>1
<1>15. (n + 1) + 1 = n + 2
  OBVIOUS
<1>16. Framed(U, u, ns)
  BY <1>7, <1>10, <1>12, <1>13, <1>14, <1>15 DEF Framed
<1>17. QED
  BY <1>3, <1>9, <1>12, <1>16 DEF Agree

LEMMA CarriedSend ==
  ASSUME NEW T, NEW s, NEW from, NEW ms \in Seq(Seq(Nat)), NEW rs \in Seq(Seq(Nat)), NEW w \in Seq(Nat), NEW reads, NEW got \in Seq(Nat),
         Carried(T, s, from, ms, rs, w, TRUE, << >>, reads, got), NEW m \in Seq(Nat)
  PROVE  \E T2, s2 : Carried(T2, s2, from, Append(ms, m), rs, w, TRUE, <<Len(m)>> \o m, reads, got)
PROOF
<1>1. PICK f : f = Frame(m)
  OBVIOUS
<1>2. PICK U : U = T \o f
  OBVIOUS
<1>3. PICK u : u = Further(s, Len(ms), Len(U))
  OBVIOUS
<1>4. PICK ns : ns = Append(ms, m)
  OBVIOUS
<1>5. Framed(T, s, ms)
  BY DEF Carried
<1>6. Framed(U, u, ns) /\ \A i \in 1..(Len(ms) + 1) : u[i] = s[i]
  <2>1. Framed(U, u, Append(ms, m)) /\ Agree(u, s, Len(ms) + 1)
    BY <1>1, <1>2, <1>3, <1>5, FramedMore
  <2>2. QED
    BY <1>4, <2>1 DEF Agree
<1>7. T \in Seq(Nat) /\ f \in Seq(Nat)
  BY <1>1, <1>5, Framing DEF Framed, Frame
<1>8. /\ Len(U) = Len(T) + Len(f) /\ (\A i \in 1..Len(T) : U[i] = T[i]) /\ \A i \in 1..Len(f) : U[Len(T) + i] = f[i]
  BY <1>2, <1>7, Joint
<1>9. Part(f, Len(f), U, Len(T))
  BY <1>8 DEF Part
<1>10. Len(T) \in Nat /\ Len(f) \in Nat /\ Len(w) \in Nat /\ Len(ms) \in Nat /\ Len(rs) \in Nat /\ Len(got) \in Nat
  BY <1>7
<1>11. /\ from \in Nat /\ from + Len(w) <= Len(T) /\ Part(w, Len(w), T, from) /\ from + Len(w) = Len(T)
       /\ Len(rs) <= Len(ms) /\ Part(rs, Len(rs), ms, 0)
  <2>1. from + Len(w) + Len(<< >>) = Len(T) /\ Len(<< >>) = 0
    BY DEF Carried
  <2>2. from \in Nat /\ from + Len(w) <= Len(T) /\ Part(w, Len(w), T, from) /\ Len(rs) <= Len(ms) /\ Part(rs, Len(rs), ms, 0)
    BY DEF Carried
  <2>3. from + Len(w) = Len(T)
    BY <1>10, <2>1, <2>2
  <2>4. QED
    BY <2>2, <2>3
<1>12. Part(w, Len(w), U, from)
  BY <1>8, <1>10, <1>11, PartLonger
<1>13. Len(ns) = Len(ms) + 1 /\ \A i \in 1..Len(ms) : ns[i] = ms[i]
  BY <1>4, Appended
<1>14. Part(rs, Len(rs), ns, 0) /\ Len(rs) <= Len(ns)
  <2>1. 0 + Len(rs) <= Len(ms) /\ Len(rs) <= Len(ms) + 1
    BY <1>10, <1>11
  <2>2. QED
    BY <1>10, <1>11, <1>13, <2>1, PartLonger
<1>15. from + Len(w) + Len(f) = Len(U) /\ from + Len(w) <= Len(U) /\ Part(f, Len(f), U, from + Len(w))
  <2>1. from + Len(w) = Len(T) /\ Len(U) = Len(T) + Len(f)
    BY <1>8, <1>11
  <2>2. from + Len(w) + Len(f) = Len(U) /\ from + Len(w) <= Len(U)
    <3>1. PICK z \in Nat : z = Len(f)
      BY <1>10
    <3>2. PICK y \in Nat : y = Len(T)
      BY <1>10
    <3>3. PICK x \in Nat : x = from + Len(w)
      BY <1>10, <1>11
    <3>4. x = y /\ Len(U) = y + z
      BY <2>1, <3>1, <3>2, <3>3
    <3>5. x + z = Len(U) /\ x <= Len(U)
      BY <3>4
    <3>6. QED
      BY <3>1, <3>3, <3>5, Zenon
  <2>3. QED
    BY <1>9, <2>1, <2>2
<1>16. ASSUME reads PROVE from = u[Len(rs) + 1] + Len(got) /\ Part(got, Len(got), U, u[Len(rs) + 1])
  <2>1. from = s[Len(rs) + 1] + Len(got) /\ Part(got, Len(got), T, s[Len(rs) + 1])
    BY <1>16 DEF Carried
  <2>2. Len(rs) + 1 \in 1..(Len(ms) + 1)
    BY <1>10, <1>11
  <2>3. s[Len(rs) + 1] \in 0..Len(T)
    BY <1>5, <2>2 DEF Framed
  <2>4. PICK a \in Nat : a = s[Len(rs) + 1]
    BY <1>10, <2>3
  <2>5. PICK g \in Nat : g = Len(got)
    BY <1>10
  <2>6. PICK t \in Nat : t = Len(T)
    BY <1>10
  <2>7. from = a + g /\ Part(got, g, T, a) /\ a + g <= t
    BY <1>10, <1>11, <2>1, <2>4, <2>5, <2>6
  <2>8. \A i \in 1..t : U[i] = T[i]
    BY <1>8, <2>6
  <2>9. Part(got, g, U, a)
    BY <2>7, <2>8, PartLonger
  <2>10. u[Len(rs) + 1] = a
    BY <1>6, <2>2, <2>4
  <2>11. QED
    BY <2>5, <2>7, <2>9, <2>10
<1>17. Carried(U, u, from, ns, rs, w, TRUE, f, reads, got)
  BY <1>6, <1>11, <1>12, <1>14, <1>15, <1>16 DEF Carried
<1>18. QED
  BY <1>1, <1>4, <1>17 DEF Frame

LEMMA CarriedWrite ==
  ASSUME NEW T, NEW s, NEW from, NEW ms \in Seq(Seq(Nat)), NEW rs, NEW w \in Seq(Nat), NEW left \in Seq(Nat), NEW reads, NEW got,
         Carried(T, s, from, ms, rs, w, TRUE, left, reads, got), left # << >>
  PROVE  Carried(T, s, from, ms, rs, Append(w, Head(left)), TRUE, Tail(left), reads, got)
PROOF
<1>1. PICK v : v = Append(w, Head(left))
  OBVIOUS
<1>2. PICK t : t = Tail(left)
  OBVIOUS
<1>3. PICK n \in Nat : n = Len(w)
  OBVIOUS
<1>4. PICK k \in Nat \ {0} : k = Len(left)
  BY Shortened
<1>5. PICK l \in Nat : l = Len(T)
  BY DEF Carried, Framed
<1>6. Len(t) = k - 1 /\ Head(left) = left[1] /\ left[1] \in Nat /\ \A i \in 1..(k - 1) : t[i] = left[i + 1]
  BY <1>2, <1>4, Shortened
<1>7. Len(v) = n + 1 /\ v[n + 1] = left[1] /\ \A i \in 1..n : v[i] = w[i]
  BY <1>1, <1>3, <1>6, Appended
<1>8. from \in Nat /\ Part(w, n, T, from) /\ from + n + k = l /\ Part(left, k, T, from + n)
  BY <1>3, <1>4, <1>5 DEF Carried
<1>9. left[1] = T[from + n + 1]
  BY <1>8, PartFirst
<1>10. Part(v, n + 1, T, from)
  BY <1>7, <1>8, <1>9, PartMore
<1>11. Part(t, k - 1, T, from + n + 1)
  <2>1. PICK e \in Nat : e = from + n
    BY <1>8
  <2>2. Part(left, k, T, e)
    BY <1>8, <2>1
  <2>3. Part(t, k - 1, T, e + 1)
    BY <1>6, <2>2, PartRest
  <2>4. QED
    BY <2>1, <2>3
<1>12. from + (n + 1) = from + n + 1 /\ from + (n + 1) <= l /\ from + (n + 1) + (k - 1) = l
  BY <1>8
<1>13. from + Len(v) <= Len(T) /\ Part(v, Len(v), T, from) /\ from + Len(v) + Len(t) = Len(T) /\ Part(t, Len(t), T, from + Len(v))
  BY <1>5, <1>6, <1>7, <1>10, <1>11, <1>12
<1>14. Carried(T, s, from, ms, rs, v, TRUE, t, reads, got)
  BY <1>13 DEF Carried
<1>15. QED
  BY <1>1, <1>2, <1>14

LEMMA CarriedRead ==
  ASSUME NEW T, NEW s, NEW from, NEW ms \in Seq(Seq(Nat)), NEW rs \in Seq(Seq(Nat)), NEW w \in Seq(Nat), NEW writes, NEW left, NEW got \in Seq(Nat),
         Carried(T, s, from, ms, rs, w, writes, left, TRUE, got), w # << >>
  PROVE  Carried(T, s, from + 1, ms, rs, Tail(w), writes, left, TRUE, Append(got, Head(w)))
PROOF
<1>1. PICK v : v = Tail(w)
  OBVIOUS
<1>2. PICK more : more = Append(got, Head(w))
  OBVIOUS
<1>3. PICK n \in Nat \ {0} : n = Len(w)
  BY Shortened
<1>4. PICK g \in Nat : g = Len(got)
  OBVIOUS
<1>5. PICK l \in Nat : l = Len(T)
  BY DEF Carried, Framed
<1>6. Len(v) = n - 1 /\ Head(w) = w[1] /\ w[1] \in Nat /\ \A i \in 1..(n - 1) : v[i] = w[i + 1]
  BY <1>1, <1>3, Shortened
<1>7. Len(more) = g + 1 /\ more[g + 1] = w[1] /\ \A i \in 1..g : more[i] = got[i]
  BY <1>2, <1>4, <1>6, Appended
<1>8. PICK a : a = s[Len(rs) + 1]
  OBVIOUS
<1>9. a \in 0..l
  <2>1. Framed(T, s, ms) /\ Len(rs) <= Len(ms) /\ Len(rs) \in Nat /\ Len(ms) \in Nat
    BY DEF Carried
  <2>2. Len(rs) + 1 \in 1..(Len(ms) + 1)
    BY <2>1
  <2>3. QED
    BY <1>5, <1>8, <2>1, <2>2 DEF Framed
<1>10. from \in Nat /\ from + n <= l /\ Part(w, n, T, from) /\ from = a + g /\ Part(got, g, T, a)
  BY <1>3, <1>4, <1>5, <1>8 DEF Carried
<1>11. w[1] = T[from + 1] /\ Part(v, n - 1, T, from + 1)
  <2>1. w[1] = T[from + 1]
    BY <1>10, PartFirst
  <2>2. Part(v, n - 1, T, from + 1)
    BY <1>6, <1>10, PartRest
  <2>3. QED
    BY <2>1, <2>2
<1>12. Part(more, g + 1, T, a)
  <2>1. more[g + 1] = T[a + g + 1]
    BY <1>7, <1>10, <1>11
  <2>2. a \in Nat
    BY <1>9
  <2>3. QED
    BY <1>7, <1>10, <2>1, <2>2, PartMore
<1>13. from + 1 \in Nat /\ (from + 1) + (n - 1) = from + n /\ from + 1 = a + (g + 1)
  BY <1>9, <1>10
<1>14. /\ from + 1 \in Nat /\ (from + 1) + Len(v) = from + Len(w) /\ (from + 1) + Len(v) <= Len(T) /\ Part(v, Len(v), T, from + 1)
       /\ from + 1 = s[Len(rs) + 1] + Len(more) /\ Part(more, Len(more), T, s[Len(rs) + 1])
  BY <1>3, <1>5, <1>6, <1>7, <1>8, <1>10, <1>11, <1>12, <1>13
<1>15. Carried(T, s, from + 1, ms, rs, v, writes, left, TRUE, more)
  BY <1>14 DEF Carried
<1>16. QED
  BY <1>1, <1>2, <1>15

LEMMA CarriedReceived ==
  ASSUME NEW T, NEW s, NEW from, NEW ms \in Seq(Seq(Nat)), NEW rs \in Seq(Seq(Nat)), NEW w \in Seq(Nat), NEW writes, NEW left, NEW got \in Seq(Nat),
         Carried(T, s, from, ms, rs, w, writes, left, TRUE, got), Whole(got)
  PROVE  Carried(T, s, from, ms, Append(rs, Tail(got)), w, writes, left, TRUE, << >>)
PROOF
<1>1. PICK text : text = Tail(got)
  OBVIOUS
<1>2. PICK g \in Nat \ {0} : g = Len(got)
  BY Shortened DEF Whole
<1>3. got[1] \in Nat /\ text \in Seq(Nat) /\ Len(text) = g - 1 /\ (\A i \in 1..(g - 1) : text[i] = got[i + 1]) /\ g = 1 + got[1]
  BY <1>1, <1>2, Shortened DEF Whole
<1>4. PICK l \in Nat : l = Len(T)
  BY DEF Carried, Framed
<1>5. PICK r \in Nat : r = Len(rs)
  OBVIOUS
<1>6. PICK n \in Nat : n = Len(ms)
  OBVIOUS
<1>7. PICK a : a = s[r + 1]
  OBVIOUS
<1>8. r <= n /\ Framed(T, s, ms) /\ from \in Nat /\ from + Len(w) <= l /\ from = a + g /\ Part(got, g, T, a) /\ Part(rs, r, ms, 0)
  BY <1>2, <1>4, <1>5, <1>6, <1>7 DEF Carried
<1>9. s \in [1..(n + 1) -> 0..l] /\ s[n + 1] = l /\ \A i \in 1..n : Begins(T, s, i, ms[i])
  BY <1>4, <1>6, <1>8 DEF Framed
<1>10. a \in 0..l
  <2>1. r + 1 \in 1..(n + 1)
    BY <1>8
  <2>2. QED
    BY <1>7, <1>9, <2>1
<1>11. from <= l
  BY <1>8
<1>12. r + 1 \in 1..n
  <2>1. r # n
    BY <1>7, <1>8, <1>9, <1>10, <1>11
  <2>2. QED
    BY <1>8, <2>1
<1>13. PICK x : x = ms[r + 1]
  OBVIOUS
<1>14. x \in Seq(Nat) /\ Len(x) \in Nat
  BY <1>6, <1>12, <1>13
<1>15. PICK k \in Nat : k = Len(x)
  BY <1>14
<1>16. s[(r + 1) + 1] = a + 1 + k /\ T[a + 1] = k /\ Part(x, k, T, a + 1)
  BY <1>7, <1>9, <1>12, <1>13, <1>15 DEF Begins
<1>17. g = 1 + k
  <2>1. got[1] = T[a + 1]
    BY <1>8, <1>10, PartFirst
  <2>2. QED
    BY <1>3, <1>16, <2>1
<1>18. text = x
  <2>1. Part(text, g - 1, T, a + 1)
    <3>1. a \in Nat
      BY <1>10
    <3>2. QED
      BY <1>3, <1>8, <3>1, PartRest
  <2>2. Len(text) = k /\ Part(text, k, T, a + 1)
    BY <1>3, <1>17, <2>1
  <2>3. \A i \in 1..k : text[i] = x[i]
    BY <1>16, <2>2 DEF Part
  <2>4. QED
    BY <1>3, <1>14, <1>15, <2>2, <2>3, SameElements
<1>19. PICK more : more = Append(rs, text)
  OBVIOUS
<1>20. Len(more) = r + 1 /\ more[r + 1] = x /\ \A i \in 1..r : more[i] = rs[i]
  BY <1>3, <1>5, <1>18, <1>19, Appended
<1>21. Part(more, r + 1, ms, 0)
  <2>1. more[r + 1] = ms[0 + r + 1]
    BY <1>13, <1>20
  <2>2. QED
    BY <1>8, <1>20, <2>1, PartMore
<1>22. from = s[(r + 1) + 1] + 0
  BY <1>8, <1>10, <1>16, <1>17
<1>23. Len(<< >>) = 0 /\ \A f : Part(<< >>, 0, T, f)
  BY DEF Part
<1>24. Len(more) <= Len(ms) /\ Part(more, Len(more), ms, 0) /\ from = s[Len(more) + 1] + Len(<< >>) /\ Part(<< >>, Len(<< >>), T, s[Len(more) + 1])
  BY <1>6, <1>12, <1>20, <1>21, <1>22, <1>23
<1>25. Carried(T, s, from, ms, more, w, writes, left, TRUE, << >>)
  BY <1>24 DEF Carried
<1>26. QED
  BY <1>1, <1>19, <1>25

-----------------------------------------------------------------------------
(* An execution has a connection, behind a handle or in its call; what is  *)
(* left of its send and what its receive got.                              *)
Using(p, c) == (\E h \in Names(p) : Channel(p, h) /\ handles[p][h].conn = c) \/ (Busy(p) /\ op[p].conn = c)
InCall(p, fn, c) == IF Busy(p) /\ op[p].fn = fn /\ op[p].conn = c THEN op[p].bytes ELSE << >>
Joined(c, q, p) == \/ conns[c].client = q /\ conns[c].server = p
                   \/ conns[c].client = p /\ conns[c].server = q
(* From q to p, over c.                                                    *)
Stream(c, q, p) ==
  \E T, s, from : Carried(T, s, from, sent[<<c, q>>], received[<<c, p>>], wire[<<c, q>>],
                          Using(q, c), InCall(q, "send", c), Using(p, c), InCall(p, "receive", c))
Streams == \A c \in DOMAIN conns, q, p \in Procs : Joined(c, q, p) => Stream(c, q, p)

LEMMA EndsOf == ASSUME TypeOK PROVE \A c \in DOMAIN conns, q \in Procs : <<c, q>> \in Ends
PROOF
<1>1. DOMAIN conns = 1..Len(conns) /\ Len(conns) \in Nat /\ Len(conns) <= MaxConns /\ MaxConns \in Nat
  BY NetworkConstants DEF TypeOK, NetworkConstants
<1>2. QED
  BY <1>1 DEF Ends, Peers

(* What a step may do to an end that has the connection, and to the bytes  *)
(* of an end, without touching the stream.                                 *)
Steady(p, c) == Using(p, c)' => /\ Using(p, c) /\ InCall(p, "send", c)' = InCall(p, "send", c)
                                /\ InCall(p, "receive", c)' = InCall(p, "receive", c)
SameWire(c, q) == wire'[<<c, q>>] = wire[<<c, q>>] \/ (wire'[<<c, q>>] = << >> /\ ~Using(q, c)')

LEMMA StreamStays ==
  ASSUME TypeOK, NEW c \in DOMAIN conns, NEW q \in Procs, NEW p \in Procs, Stream(c, q, p),
         sent'[<<c, q>>] = sent[<<c, q>>], received'[<<c, p>>] = received[<<c, p>>], SameWire(c, q),
         Using(q, c)' => Using(q, c) /\ InCall(q, "send", c)' = InCall(q, "send", c),
         Using(p, c)' => Using(p, c) /\ InCall(p, "receive", c)' = InCall(p, "receive", c)
  PROVE  Stream(c, q, p)'
PROOF
<1>1. PICK w : w = wire[<<c, q>>]
  OBVIOUS
<1>2. PICK T, s, from : Carried(T, s, from, sent[<<c, q>>], received[<<c, p>>], w,
                                Using(q, c), InCall(q, "send", c), Using(p, c), InCall(p, "receive", c))
  BY <1>1 DEF Stream
<1>3. w \in Seq(Nat)
  <2>1. <<c, q>> \in Ends
    BY NetworkConstants DEF TypeOK, Ends, Peers, NetworkConstants
  <2>2. QED
    BY <1>1, <2>1 DEF TypeOK
<1>4. CASE wire'[<<c, q>>] = w
  <2>1. Carried(T, s, from, sent[<<c, q>>], received[<<c, p>>], w,
                Using(q, c)', InCall(q, "send", c)', Using(p, c)', InCall(p, "receive", c)')
    BY <1>2, CarriedLess
  <2>2. QED
    BY <1>4, <2>1 DEF Stream
<1>5. CASE wire'[<<c, q>>] = << >> /\ ~Using(q, c)'
  <2>1. Carried(T, s, from, sent[<<c, q>>], received[<<c, p>>], << >>,
                Using(q, c)', InCall(q, "send", c)', Using(p, c)', InCall(p, "receive", c)')
    BY <1>2, <1>3, <1>5, CarriedLost
  <2>2. QED
    BY <1>5, <2>1 DEF Stream
<1>6. QED
  BY <1>1, <1>4, <1>5 DEF SameWire

(* Nothing was written on a connection whose handshake goes on.            *)
LEMMA StreamFresh ==
  ASSUME TypeOK', Control', NEW c \in DOMAIN conns', conns'[c].shake \in {"queued", "hello"}, NEW q \in Procs, NEW p \in Procs
  PROVE  Stream(c, q, p)'
PROOF
<1>1. \A x : ~Started(c, x)'
  BY DEF Started
<1>2. <<c, q>> \in Ends /\ <<c, p>> \in Ends
  BY NetworkConstants DEF TypeOK, Ends, Peers, NetworkConstants
<1>3. sent'[<<c, q>>] = << >> /\ wire'[<<c, q>>] = << >> /\ received'[<<c, p>>] = << >>
  BY <1>1, <1>2 DEF Control, Fresh
<1>4. InCall(q, "send", c)' = << >> /\ InCall(p, "receive", c)' = << >>
  BY <1>1 DEF Control, CallOK, InCall
<1>5. QED
  BY <1>3, <1>4, CarriedNothing DEF Stream

Untouched(c) ==
  /\ \A q \in Procs : Steady(q, c) /\ SameWire(c, q)
  /\ \A q \in Procs : sent'[<<c, q>>] = sent[<<c, q>>] /\ received'[<<c, q>>] = received[<<c, q>>]

LEMMA StreamsOf ==
  ASSUME TypeOK, Streams, TypeOK', Control', \A c \in DOMAIN conns : Kept(c),
         \A c \in DOMAIN conns' : \/ c \in DOMAIN conns /\ Untouched(c)
                                  \/ conns'[c].shake \in {"queued", "hello"}
                                  \/ c \in DOMAIN conns /\ \A q, p \in Procs : Joined(c, q, p) => Stream(c, q, p)'
  PROVE  Streams'
PROOF
<1>1. SUFFICES ASSUME NEW c \in DOMAIN conns', NEW q \in Procs, NEW p \in Procs, Joined(c, q, p)' PROVE Stream(c, q, p)'
  BY DEF Streams
<1>2. c \in DOMAIN conns => Joined(c, q, p)
  BY <1>1 DEF Joined, Kept
<1>3. CASE c \in DOMAIN conns /\ Untouched(c)
  <2>1. Stream(c, q, p)
    BY <1>2, <1>3 DEF Streams
  <2>2. QED
    BY <1>3, <2>1, StreamStays DEF Untouched, Steady
<1>4. CASE conns'[c].shake \in {"queued", "hello"}
  BY <1>4, StreamFresh
<1>5. QED
  BY <1>2, <1>3, <1>4

LEMMA SteadyOthers == ASSUME NEW q, handles'[q] = handles[q], op'[q] = op[q] PROVE \A c : Steady(q, c)
BY DEF Steady, Using, InCall, Names, Channel, Busy

(* The end that acts: it has no connection that it did not have.           *)
LEMMA SteadyIdle ==
  ASSUME NEW p, ~Busy(p), ~Busy(p)',
         \A h \in Names(p)' : Channel(p, h)' => h \in Names(p) /\ handles'[p][h] = handles[p][h]
  PROVE  \A c : Steady(p, c)
BY DEF Steady, Using, InCall, Names, Channel

LEMMA SteadyCall ==
  ASSUME NEW p, ~Busy(p), handles'[p] = handles[p]
  PROVE  \A c : op'[p].conn # c => Steady(p, c)
BY DEF Steady, Using, InCall, Names, Channel, Busy

LEMMA SteadyOut ==
  ASSUME TypeOK, NEW p \in Procs, ~Busy(p), NEW h \in Names(p), Remove(p, h), Channel(p, h), op'[p].conn = handles[p][h].conn
  PROVE  /\ \A c : op'[p].conn # c => Steady(p, c)
         /\ \A c : op'[p].conn = c /\ op'[p].bytes = << >> => Steady(p, c)
         /\ Using(p, op'[p].conn)
PROOF
<1>1. DOMAIN handles'[p] = Names(p) \ {h} /\ \A n \in DOMAIN handles'[p] : handles'[p][n] = handles[p][n]
  BY Removed
<1>2. QED
  BY <1>1 DEF Steady, Using, InCall, Names, Channel, Busy

LEMMA SteadyBack ==
  ASSUME NEW p \in Procs, Busy(p), op'[p] = None, NEW h, Names(p)' = Names(p) \union {h},
         \A n \in Names(p)' : (n \in Names(p) /\ handles'[p][n] = handles[p][n]) \/ handles'[p][n].conn = op[p].conn
  PROVE  /\ \A c : op[p].conn # c => Steady(p, c)
         /\ op[p].bytes = << >> \/ op[p].fn \notin {"send", "receive"} => Steady(p, op[p].conn)
BY DEF Steady, Using, InCall, Names, Channel, Busy

LEMMA SteadyGone ==
  ASSUME Control, NEW p \in Procs, Busy(p), op'[p] = None, handles'[p] = handles[p]
  PROVE  \A c : (c = op[p].conn => ~Using(p, c)') /\ Steady(p, c)
PROOF
<1>1. \A c : c = op[p].conn => ~Using(p, c)'
  BY DEF Control, ChannelsOK, Using, Names, Channel, Busy
<1>2. \A c : op[p].conn # c => Steady(p, c)
  BY DEF Steady, Using, InCall, Names, Channel, Busy
<1>3. QED
  BY <1>1, <1>2 DEF Steady

(* The connections that a closed handle leaves without bytes: the channels *)
(* are no longer had, on those of a listener nothing was written.          *)
LEMMA HeldWire ==
  ASSUME TypeOK, Control, NEW p \in Procs, NEW hs, CloseEnds(Held(p, hs), p), ~Busy(p)',
         \A n \in Names(p)' : n \in Names(p) /\ n \notin hs /\ handles'[p][n] = handles[p][n], hs \subseteq Names(p)
  PROVE  \A c \in DOMAIN conns, q \in Procs : SameWire(c, q)
PROOF
<1>1. SUFFICES ASSUME NEW c \in DOMAIN conns, NEW q \in Procs, wire'[<<c, q>>] # wire[<<c, q>>]
               PROVE  wire'[<<c, q>>] = << >> /\ ~Using(q, c)'
  BY DEF SameWire
<1>2. <<c, q>> \in Ends /\ p \in Peers
  BY NetworkConstants DEF TypeOK, Ends, Peers, NetworkConstants
<1>3. c \in Held(p, hs) /\ q = p /\ wire'[<<c, q>>] = << >>
  BY <1>1, <1>2, Closed
<1>4. Started(c, p)
  BY <1>1, <1>2, <1>3 DEF Control, Fresh
<1>5. PICK h \in hs : Channel(p, h) /\ handles[p][h].conn = c
  BY <1>3, <1>4 DEF Held, Started, Control, ConnOK
<1>6. ~Using(p, c)'
  BY <1>5 DEF Using, Channel, Names, Control, ChannelsOK
<1>7. QED
  BY <1>3, <1>6

(* A step of p, but for the connection d that its call is about.           *)
LEMMA StreamsKept ==
  ASSUME TypeOK, Control, Streams, TypeOK', Control', NEW p \in Procs, Call(p) \/ Progress(p),
         \A c \in DOMAIN conns : Forward(c, p), \A c \in DOMAIN conns' \ DOMAIN conns : New(c, p), NEW d,
         \A c \in DOMAIN conns : c # d => Steady(p, c) \/ conns'[c].shake \in {"queued", "hello"},
         \A c \in DOMAIN conns : c # d => \A q \in Procs :
            SameWire(c, q) /\ sent'[<<c, q>>] = sent[<<c, q>>] /\ received'[<<c, q>>] = received[<<c, q>>],
         d \in DOMAIN conns => \A q, r \in Procs : Joined(d, q, r) => Stream(d, q, r)'
  PROVE  Streams'
PROOF
<1>1. \A q \in Procs \ {p} : \A c : Steady(q, c)
  BY Others, SteadyOthers
<1>2. \A c \in DOMAIN conns : Kept(c)
  BY DEF Forward
<1>3. \A c \in DOMAIN conns : c # d => Untouched(c) \/ conns'[c].shake \in {"queued", "hello"}
  BY <1>1 DEF Untouched
<1>4. \A c \in DOMAIN conns' \ DOMAIN conns : conns'[c].shake = "queued"
  BY DEF New
<1>5. QED
  BY <1>2, <1>3, <1>4, StreamsOf

LEMMA StreamsSend ==
  ASSUME TypeOK, Control, Streams, TypeOK', Control', NEW p \in Procs, NEW h \in Names(p), NEW m \in Messages, Send(p, h, m), Call(p)
  PROVE  Streams'
PROOF
<1>1. PICK c : c = handles[p][h].conn
  OBVIOUS
<1>2. /\ Idle(p) /\ Channel(p, h) /\ Start(p, "send", h, c, <<Len(m)>> \o m) /\ Remove(p, h)
      /\ sent' = [sent EXCEPT ![<<c, p>>] = Append(sent[<<c, p>>], m)] /\ UNCHANGED <<conns, wire, received>>
  BY <1>1 DEF Send, network
<1>3. PICK f : f = <<Len(m)>> \o m
  OBVIOUS
<1>4. op'[p] = [fn |-> "send", handle |-> h, conn |-> c, bytes |-> f, age |-> 0, deadline |-> timeout[p]] /\ ~Busy(p)
  <2>1. ~Busy(p)
    BY <1>2 DEF Idle, Busy
  <2>2. Start(p, "send", h, c, f)
    BY <1>2, <1>3
  <2>3. QED
    BY <2>1, <2>2, Called
<1>5. op'[p].fn = "send" /\ op'[p].conn = c /\ op'[p].bytes = f
  BY <1>4
<1>6. (\A d : d # c => Steady(p, d)) /\ Using(p, c)
  BY <1>1, <1>2, <1>4, <1>5, SteadyOut
<1>7. (\A d \in DOMAIN conns : Forward(d, p)) /\ DOMAIN conns' \ DOMAIN conns = {}
  BY <1>2, StillConns
<1>8. Started(c, p) /\ c \in DOMAIN conns /\ conns[c].client # conns[c].server
  BY <1>1, <1>2 DEF Control, ChannelsOK, Started, ConnOK
<1>9. \A d \in DOMAIN conns, q \in Procs : SameWire(d, q) /\ received'[<<d, q>>] = received[<<d, q>>]
  BY <1>2 DEF SameWire
<1>10. \A d \in DOMAIN conns, q \in Procs : <<d, q>> \in Ends
  BY EndsOf
<1>11. \A d \in DOMAIN conns, q \in Procs : d # c \/ q # p => sent'[<<d, q>>] = sent[<<d, q>>]
  BY <1>2, <1>10 DEF TypeOK
<1>12. ASSUME NEW q \in Procs, NEW r \in Procs, Joined(c, q, r) PROVE Stream(c, q, r)'
  <2>1. Stream(c, q, r) /\ q # r
    BY <1>8, <1>12 DEF Streams, Joined
  <2>2. CASE q = p
    <3>1. PICK w : w = wire[<<c, p>>]
      OBVIOUS
    <3>2. PICK ms : ms = sent[<<c, p>>]
      OBVIOUS
    <3>3. PICK rs : rs = received[<<c, r>>]
      OBVIOUS
    <3>4. w \in Seq(Nat) /\ ms \in Seq(Seq(Nat)) /\ rs \in Seq(Seq(Nat)) /\ m \in Seq(Nat)
      BY <1>8, <1>10, <3>1, <3>2, <3>3, NetworkConstants DEF TypeOK, NetworkConstants
    <3>5. InCall(p, "send", c) = << >>
      BY <1>4 DEF InCall
    <3>6. PICK got : got = InCall(r, "receive", c)
      OBVIOUS
    <3>7. got \in Seq(Nat)
      BY <3>6 DEF InCall, TypeOK, CallTyped, CallOn
    <3>8. PICK T, s, from : Carried(T, s, from, ms, rs, w, Using(p, c), << >>, Using(r, c), got)
      BY <2>1, <2>2, <3>1, <3>2, <3>3, <3>5, <3>6 DEF Stream
    <3>9. Carried(T, s, from, ms, rs, w, TRUE, << >>, Using(r, c), got)
      BY <1>6, <3>8, CarriedLess
    <3>10. PICK T2, s2 : Carried(T2, s2, from, Append(ms, m), rs, w, TRUE, f, Using(r, c), got)
      BY <1>3, <3>4, <3>7, <3>9, CarriedSend
    <3>11. InCall(p, "send", c)' = f
      <4>1. Busy(p)'
        <5>1. f \in Seq(Nat) /\ h \in Nat /\ c \in Nat /\ timeout[p] \in Nat /\ 0 \in Nat
          <6>1. f \in Seq(Nat)
            BY <1>3, <3>4, Framing
          <6>2. h \in Nat /\ timeout[p] \in 1..MaxTimeout
            BY DEF TypeOK, HandlesTyped
          <6>3. c \in Nat
            BY <1>8 DEF TypeOK
          <6>4. QED
            BY <6>1, <6>2, <6>3, NetworkConstants DEF NetworkConstants
        <5>2. op'[p] \in [fn : {"connect", "accept", "send", "receive"}, handle : Nat, conn : Nat, bytes : Seq(Nat),
                          age : Nat, deadline : Nat]
          BY <1>4, <5>1
        <5>3. QED
          BY <5>2, NetworkConstants DEF Busy, NetworkConstants
      <4>2. QED
        BY <1>5, <4>1 DEF InCall
    <3>12. Steady(r, c)
      BY <2>1, <2>2, Others, SteadyOthers
    <3>13. Carried(T2, s2, from, Append(ms, m), rs, w, Using(p, c)', f, Using(r, c)', InCall(r, "receive", c)')
      BY <3>6, <3>10, <3>12, CarriedLess DEF Steady
    <3>14. sent'[<<c, p>>] = Append(ms, m) /\ received'[<<c, r>>] = rs /\ wire'[<<c, p>>] = w
      BY <1>2, <1>8, <1>10, <3>1, <3>2, <3>3 DEF TypeOK
    <3>15. QED
      BY <2>2, <3>11, <3>13, <3>14 DEF Stream
  <2>3. CASE q # p
    <3>1. r = p
      BY <1>8, <1>12, <2>3 DEF Joined, Started
    <3>2. Steady(q, c)
      BY <2>3, Others, SteadyOthers
    <3>3. InCall(p, "receive", c)' = InCall(p, "receive", c)
      BY <1>4, <1>5 DEF InCall
    <3>4. QED
      BY <1>6, <1>8, <1>9, <1>11, <2>1, <2>3, <3>1, <3>2, <3>3, StreamStays DEF Steady
  <2>4. QED
    BY <2>2, <2>3
<1>13. QED
  BY <1>6, <1>7, <1>9, <1>11, <1>12, StreamsKept

LEMMA CallIs == ASSUME NEW n \in Nat, NEW o \in CallOn(n) PROVE o # None
PROOF
<1>1. 0..n \subseteq Nat /\ 1..MaxTimeout \subseteq Nat
  BY NetworkConstants DEF NetworkConstants
<1>2. o \in [fn : {"connect", "accept", "send", "receive"}, handle : Nat, conn : Nat, bytes : Seq(Nat), age : Nat, deadline : Nat]
  BY <1>1 DEF CallOn
<1>3. QED
  BY <1>2, NetworkConstants DEF NetworkConstants

LEMMA CallGoesOn ==
  ASSUME TypeOK, NEW p \in Procs, Busy(p), NEW o, op' = [op EXCEPT ![p] = o], o \in CallOn(Len(conns)),
         o.conn = op[p].conn, o.fn = op[p].fn, handles' = handles
  PROVE  /\ op'[p] = o /\ Busy(p)' /\ Using(p, o.conn)
         /\ \A c : o.conn # c => Steady(p, c)
         /\ o.bytes = op[p].bytes => Steady(p, o.conn)
PROOF
<1>1. op'[p] = o /\ o # None /\ handles'[p] = handles[p]
  BY CallIs DEF TypeOK
<1>2. Busy(p)'
  BY <1>1 DEF Busy
<1>3. QED
  BY <1>1, <1>2 DEF Steady, Using, InCall, Names, Channel, Busy

LEMMA StreamsWrite ==
  ASSUME TypeOK, Control, Streams, TypeOK', Control', NEW p \in Procs, Write(p), Progress(p)
  PROVE  Streams'
PROOF
<1>1. PICK c : c = op[p].conn
  OBVIOUS
<1>2. PICK left : left = op[p].bytes
  OBVIOUS
<1>3. PICK o : o = [op[p] EXCEPT !.bytes = Tail(left)]
  OBVIOUS
<1>4. /\ Busy(p) /\ op[p].fn = "send" /\ left # << >> /\ op' = [op EXCEPT ![p] = o]
      /\ wire' = [wire EXCEPT ![<<c, p>>] = Append(wire[<<c, p>>], Head(left))]
      /\ UNCHANGED <<handles, conns, sent, received>>
  BY <1>1, <1>2, <1>3 DEF Write
<1>5. left \in Seq(Nat) /\ op[p] \in CallOn(Len(conns)) /\ Len(conns) \in Nat
  BY <1>2, <1>4 DEF TypeOK, CallTyped, CallOn
<1>6. o \in CallOn(Len(conns)) /\ o.bytes = Tail(left) /\ o.conn = c /\ o.fn = "send"
  <2>1. Tail(left) \in Seq(Nat)
    BY <1>4, <1>5, HeadTail
  <2>2. \A b \in Seq(Nat) : LET x == [op[p] EXCEPT !.bytes = b] IN
              x \in CallOn(Len(conns)) /\ x.bytes = b /\ x.conn = op[p].conn /\ x.fn = op[p].fn
    BY <1>5, CallEdited
  <2>3. QED
    BY <1>1, <1>3, <1>4, <2>1, <2>2
<1>7. op'[p] = o /\ Busy(p)' /\ Using(p, c) /\ \A d : d # c => Steady(p, d)
  BY <1>1, <1>4, <1>6, CallGoesOn
<1>8. (\A d \in DOMAIN conns : Forward(d, p)) /\ DOMAIN conns' \ DOMAIN conns = {}
  BY <1>4, StillConns
<1>9. Started(c, p) /\ c \in DOMAIN conns /\ conns[c].client # conns[c].server
  BY <1>1, <1>4 DEF Control, CallOK, Started, ConnOK
<1>10. \A d \in DOMAIN conns, q \in Procs : <<d, q>> \in Ends
  BY EndsOf
<1>11. \A d \in DOMAIN conns, q \in Procs : d # c \/ q # p => SameWire(d, q)
  BY <1>4, <1>10 DEF TypeOK, SameWire
<1>12. ASSUME NEW q \in Procs, NEW r \in Procs, Joined(c, q, r) PROVE Stream(c, q, r)'
  <2>1. Stream(c, q, r) /\ q # r
    BY <1>9, <1>12 DEF Streams, Joined
  <2>2. CASE q = p
    <3>1. PICK w : w = wire[<<c, p>>]
      OBVIOUS
    <3>2. PICK ms : ms = sent[<<c, p>>]
      OBVIOUS
    <3>3. w \in Seq(Nat) /\ ms \in Seq(Seq(Nat))
      BY <1>9, <1>10, <3>1, <3>2 DEF TypeOK
    <3>4. InCall(p, "send", c) = left /\ InCall(p, "send", c)' = Tail(left)
      BY <1>1, <1>2, <1>4, <1>6, <1>7 DEF InCall
    <3>5. PICK T, s, from : Carried(T, s, from, ms, received[<<c, r>>], w, Using(p, c), left, Using(r, c), InCall(r, "receive", c))
      BY <2>1, <2>2, <3>1, <3>2, <3>4 DEF Stream
    <3>6. Carried(T, s, from, ms, received[<<c, r>>], w, TRUE, left, Using(r, c), InCall(r, "receive", c))
      BY <1>7, <3>5, CarriedLess
    <3>7. Carried(T, s, from, ms, received[<<c, r>>], Append(w, Head(left)), TRUE, Tail(left), Using(r, c), InCall(r, "receive", c))
      BY <1>4, <1>5, <3>3, <3>6, CarriedWrite
    <3>8. Steady(r, c)
      BY <2>1, <2>2, Others, SteadyOthers
    <3>9. Carried(T, s, from, ms, received[<<c, r>>], Append(w, Head(left)), Using(p, c)', Tail(left), Using(r, c)', InCall(r, "receive", c)')
      <4>1. PICK got : got = InCall(r, "receive", c)
        OBVIOUS
      <4>2. PICK v : v = Append(w, Head(left))
        OBVIOUS
      <4>3. PICK t, rs : t = Tail(left) /\ rs = received[<<c, r>>]
        OBVIOUS
      <4>4. Carried(T, s, from, ms, rs, v, TRUE, t, Using(r, c), got)
        BY <3>7, <4>1, <4>2, <4>3
      <4>5. Using(r, c)' => Using(r, c) /\ InCall(r, "receive", c)' = got
        BY <3>8, <4>1 DEF Steady
      <4>6. Carried(T, s, from, ms, rs, v, Using(p, c)', t, Using(r, c)', InCall(r, "receive", c)')
        BY <4>4, <4>5 DEF Carried
      <4>7. QED
        BY <4>2, <4>3, <4>6
    <3>10. wire'[<<c, p>>] = Append(w, Head(left))
      BY <1>4, <1>9, <1>10, <3>1 DEF TypeOK
    <3>11. QED
      BY <1>4, <2>2, <3>2, <3>4, <3>9, <3>10 DEF Stream
  <2>3. CASE q # p
    <3>1. r = p
      BY <1>9, <1>12, <2>3 DEF Joined, Started
    <3>2. Steady(q, c)
      BY <2>3, Others, SteadyOthers
    <3>3. InCall(p, "receive", c)' = InCall(p, "receive", c)
      BY <1>4, <1>6, <1>7 DEF InCall
    <3>4. QED
      BY <1>4, <1>7, <1>9, <1>11, <2>1, <2>3, <3>1, <3>2, <3>3, StreamStays DEF Steady
  <2>4. QED
    BY <2>2, <2>3
<1>13. \A d \in DOMAIN conns : d # c => \A q \in Procs :
          SameWire(d, q) /\ sent'[<<d, q>>] = sent[<<d, q>>] /\ received'[<<d, q>>] = received[<<d, q>>]
  BY <1>4, <1>11
<1>14. QED
  BY <1>7, <1>8, <1>12, <1>13, StreamsKept

LEMMA StreamsRead ==
  ASSUME TypeOK, Control, Streams, TypeOK', Control', NEW p \in Procs, Read(p), Progress(p)
  PROVE  Streams'
PROOF
<1>1. PICK c : c = op[p].conn
  OBVIOUS
<1>2. PICK got : got = op[p].bytes
  OBVIOUS
<1>3. PICK e : e = Other(c, p)
  OBVIOUS
<1>4. PICK w : w = wire[<<c, e>>]
  OBVIOUS
<1>5. PICK more : more = Append(got, Head(w))
  OBVIOUS
<1>6. PICK o : o = [op[p] EXCEPT !.bytes = more]
  OBVIOUS
<1>7. Busy(p) /\ op[p].fn = "receive" /\ w # << >> /\ UNCHANGED <<handles, conns, sent, received>>
  BY <1>1, <1>3, <1>4 DEF Read
<1>8. Started(c, p) /\ c \in DOMAIN conns /\ conns[c].client # conns[c].server
  BY <1>1, <1>7 DEF Control, CallOK, Started, ConnOK
<1>9. got \in Seq(Nat) /\ op[p] \in CallOn(Len(conns)) /\ Len(conns) \in Nat
  BY <1>2, <1>7 DEF TypeOK, CallTyped, CallOn
<1>10. <<c, e>> \in Ends /\ w \in Seq(Nat)
  <2>1. e \in Peers /\ DOMAIN conns = 1..Len(conns) /\ Len(conns) <= MaxConns /\ MaxConns \in Nat
    <3>1. conns[c] \in Connection /\ DOMAIN conns = 1..Len(conns) /\ Len(conns) <= MaxConns
      BY <1>8 DEF TypeOK
    <3>2. conns[c].client \in Peers /\ conns[c].server \in Peers
      BY <3>1 DEF Connection, Peers
    <3>3. QED
      BY <1>3, <3>1, <3>2, NetworkConstants DEF Other, NetworkConstants
  <2>2. <<c, e>> \in Ends
    BY <1>8, <1>9, <2>1 DEF Ends
  <2>3. QED
    BY <1>4, <2>2 DEF TypeOK
<1>11. more \in Seq(Nat)
  BY <1>5, <1>7, <1>9, <1>10, HeadTail
<1>12. o \in CallOn(Len(conns)) /\ o.bytes = more /\ o.conn = c /\ o.fn = "receive"
  <2>1. \A b \in Seq(Nat) : LET x == [op[p] EXCEPT !.bytes = b] IN
              x \in CallOn(Len(conns)) /\ x.bytes = b /\ x.conn = op[p].conn /\ x.fn = op[p].fn
    BY <1>9, CallEdited
  <2>2. QED
    BY <1>1, <1>6, <1>7, <1>11, <2>1
<1>13. op' = [op EXCEPT ![p] = o]
  <2>1. op' = [op EXCEPT ![p].bytes = more, ![p].deadline = op[p].deadline]
    BY <1>1, <1>2, <1>3, <1>4, <1>5 DEF Read, Deadline
  <2>2. [o EXCEPT !.deadline = op[p].deadline] = o
    BY <1>6, <1>9 DEF CallOn
  <2>3. QED
    BY <1>6, <2>1, <2>2 DEF TypeOK
<1>14. wire' = [wire EXCEPT ![<<c, e>>] = Tail(w)]
  BY <1>1, <1>3, <1>4 DEF Read
<1>15. op'[p] = o /\ Busy(p)' /\ Using(p, c) /\ \A d : d # c => Steady(p, d)
  BY <1>1, <1>7, <1>12, <1>13, CallGoesOn
<1>16. (\A d \in DOMAIN conns : Forward(d, p)) /\ DOMAIN conns' \ DOMAIN conns = {}
  BY <1>7, StillConns
<1>17. \A d \in DOMAIN conns, q \in Procs : <<d, q>> \in Ends
  BY EndsOf
<1>18. \A d \in DOMAIN conns, q \in Procs : d # c \/ q # e => SameWire(d, q)
  BY <1>14, <1>17 DEF TypeOK, SameWire
<1>19. ASSUME NEW q \in Procs, NEW r \in Procs, Joined(c, q, r) PROVE Stream(c, q, r)'
  <2>1. Stream(c, q, r) /\ q # r
    BY <1>8, <1>19 DEF Streams, Joined
  <2>2. CASE r = p
    <3>1. q = e
      BY <1>3, <1>8, <1>19, <2>2 DEF Joined, Other
    <3>2. PICK ms : ms = sent[<<c, q>>]
      OBVIOUS
    <3>3. PICK rs : rs = received[<<c, p>>]
      OBVIOUS
    <3>4. ms \in Seq(Seq(Nat)) /\ rs \in Seq(Seq(Nat))
      BY <1>8, <1>17, <3>2, <3>3 DEF TypeOK
    <3>5. InCall(p, "receive", c) = got /\ InCall(p, "receive", c)' = more
      BY <1>1, <1>2, <1>7, <1>12, <1>15 DEF InCall
    <3>6. PICK T, s, from : Carried(T, s, from, ms, rs, w, Using(q, c), InCall(q, "send", c), Using(p, c), got)
      BY <1>4, <2>1, <2>2, <3>1, <3>2, <3>3, <3>5 DEF Stream
    <3>7. Carried(T, s, from, ms, rs, w, Using(q, c), InCall(q, "send", c), TRUE, got)
      BY <1>15, <3>6, CarriedLess
    <3>8. Carried(T, s, from + 1, ms, rs, Tail(w), Using(q, c), InCall(q, "send", c), TRUE, more)
      BY <1>5, <1>7, <1>9, <1>10, <3>4, <3>7, CarriedRead
    <3>9. Steady(q, c)
      BY <2>1, <2>2, Others, SteadyOthers
    <3>10. Carried(T, s, from + 1, ms, rs, Tail(w), Using(q, c)', InCall(q, "send", c)', Using(p, c)', more)
      BY <3>8, <3>9, CarriedLess DEF Steady
    <3>11. wire'[<<c, q>>] = Tail(w)
      BY <1>10, <1>14, <3>1 DEF TypeOK
    <3>12. QED
      BY <1>7, <2>2, <3>2, <3>3, <3>5, <3>10, <3>11 DEF Stream
  <2>3. CASE r # p
    <3>1. q = p /\ r = e
      BY <1>3, <1>8, <1>19, <2>3 DEF Joined, Started, Other
    <3>2. Steady(r, c)
      BY <2>3, Others, SteadyOthers
    <3>3. InCall(p, "send", c)' = InCall(p, "send", c)
      BY <1>7, <1>12, <1>15 DEF InCall
    <3>4. SameWire(c, q)
      BY <1>8, <1>18, <2>1, <3>1
    <3>5. QED
      BY <1>7, <1>8, <1>15, <2>1, <3>1, <3>2, <3>3, <3>4, StreamStays DEF Steady
  <2>4. QED
    BY <2>2, <2>3
<1>20. QED
  BY <1>7, <1>15, <1>16, <1>18, <1>19, StreamsKept

LEMMA StreamsReceived ==
  ASSUME TypeOK, Control, Streams, TypeOK', Control', NEW p \in Procs, Received(p), Progress(p)
  PROVE  Streams'
PROOF
<1>1. PICK c : c = op[p].conn
  OBVIOUS
<1>2. PICK got : got = op[p].bytes
  OBVIOUS
<1>3. PICK text : text = Tail(got)
  OBVIOUS
<1>4. PICK h : h = op[p].handle
  OBVIOUS
<1>5. /\ Busy(p) /\ op[p].fn = "receive" /\ Whole(got) /\ Restore(p, h, [kind |-> "channel", conn |-> c]) /\ Return(p)
      /\ received' = [received EXCEPT ![<<c, p>>] = Append(received[<<c, p>>], text)]
      /\ UNCHANGED <<conns, wire, sent>>
  BY <1>1, <1>2, <1>3, <1>4 DEF Received, network
<1>6. Started(c, p) /\ c \in DOMAIN conns /\ conns[c].client # conns[c].server /\ Using(p, c)
  BY <1>1, <1>5 DEF Control, CallOK, Started, ConnOK, Using
<1>7. got \in Seq(Nat)
  BY <1>2, <1>5 DEF TypeOK, CallTyped, CallOn
<1>8. op'[p] = None
  BY <1>5, Called
<1>9. \A d : d # c => Steady(p, d)
  <2>1. PICK x : x = [kind |-> "channel", conn |-> c]
    OBVIOUS
  <2>2. Restore(p, h, x) /\ x.conn = c
    BY <1>5, <2>1
  <2>3. DOMAIN handles'[p] = Names(p) \union {h} /\ \A n \in DOMAIN handles'[p] : handles'[p][n] = IF n = h THEN x ELSE handles[p][n]
    BY <2>2, Restored
  <2>4. \A n \in Names(p)' : (n \in Names(p) /\ handles'[p][n] = handles[p][n]) \/ handles'[p][n].conn = op[p].conn
    BY <1>1, <2>2, <2>3 DEF Names
  <2>5. QED
    BY <1>1, <1>5, <1>8, <2>3, <2>4, SteadyBack DEF Names
<1>10. (\A d \in DOMAIN conns : Forward(d, p)) /\ DOMAIN conns' \ DOMAIN conns = {}
  BY <1>5, StillConns
<1>11. \A d \in DOMAIN conns, q \in Procs : <<d, q>> \in Ends
  BY EndsOf
<1>12. \A d \in DOMAIN conns, q \in Procs : SameWire(d, q) /\ sent'[<<d, q>>] = sent[<<d, q>>]
  BY <1>5 DEF SameWire
<1>13. \A d \in DOMAIN conns, q \in Procs : d # c \/ q # p => received'[<<d, q>>] = received[<<d, q>>]
  BY <1>5, <1>11 DEF TypeOK
<1>14. InCall(p, "receive", c)' = << >> /\ InCall(p, "send", c)' = << >> /\ InCall(p, "send", c) = << >> /\ InCall(p, "receive", c) = got
  BY <1>1, <1>2, <1>5, <1>8 DEF InCall, Busy
<1>15. ASSUME NEW q \in Procs, NEW r \in Procs, Joined(c, q, r) PROVE Stream(c, q, r)'
  <2>1. Stream(c, q, r) /\ q # r
    BY <1>6, <1>15 DEF Streams, Joined
  <2>2. CASE r = p
    <3>1. PICK ms, rs, w : ms = sent[<<c, q>>] /\ rs = received[<<c, p>>] /\ w = wire[<<c, q>>]
      OBVIOUS
    <3>2. ms \in Seq(Seq(Nat)) /\ rs \in Seq(Seq(Nat)) /\ w \in Seq(Nat)
      BY <1>6, <1>11, <3>1 DEF TypeOK
    <3>3. PICK T, s, from : Carried(T, s, from, ms, rs, w, Using(q, c), InCall(q, "send", c), Using(p, c), got)
      BY <1>14, <2>1, <2>2, <3>1 DEF Stream
    <3>4. Carried(T, s, from, ms, rs, w, Using(q, c), InCall(q, "send", c), TRUE, got)
      BY <1>6, <3>3, CarriedLess
    <3>5. PICK more : more = Append(rs, text)
      OBVIOUS
    <3>6. Carried(T, s, from, ms, more, w, Using(q, c), InCall(q, "send", c), TRUE, << >>)
      BY <1>3, <1>5, <1>7, <3>2, <3>4, <3>5, CarriedReceived
    <3>7. Steady(q, c)
      BY <2>1, <2>2, Others, SteadyOthers
    <3>8. Carried(T, s, from, ms, more, w, Using(q, c)', InCall(q, "send", c)', Using(p, c)', << >>)
      BY <3>6, <3>7 DEF Carried, Steady
    <3>9. received'[<<c, p>>] = more
      BY <1>5, <1>6, <1>11, <3>1, <3>5 DEF TypeOK
    <3>10. QED
      BY <1>5, <1>14, <2>2, <3>1, <3>8, <3>9 DEF Stream
  <2>3. CASE r # p
    <3>1. q = p
      BY <1>6, <1>15, <2>3 DEF Joined, Started
    <3>2. Steady(r, c)
      BY <2>3, Others, SteadyOthers
    <3>3. SameWire(c, q) /\ received'[<<c, r>>] = received[<<c, r>>] /\ sent'[<<c, q>>] = sent[<<c, q>>]
      BY <1>6, <1>12, <1>13, <2>3
    <3>4. QED
      BY <1>6, <1>14, <2>1, <3>1, <3>2, <3>3, StreamStays DEF Steady
  <2>4. QED
    BY <2>2, <2>3
<1>16. \A d \in DOMAIN conns : d # c => \A q \in Procs :
          SameWire(d, q) /\ sent'[<<d, q>>] = sent[<<d, q>>] /\ received'[<<d, q>>] = received[<<d, q>>]
  BY <1>12, <1>13
<1>17. QED
  BY <1>9, <1>10, <1>15, <1>16, StreamsKept

(* The steps that touch no message: all but Send, Write, Read, Received.   *)
LEMMA StreamsQuiet ==
  ASSUME TypeOK, Control, Streams, TypeOK', Control', NEW p \in Procs, Call(p) \/ Progress(p),
         \A c \in DOMAIN conns : Forward(c, p), \A c \in DOMAIN conns' \ DOMAIN conns : New(c, p), UNCHANGED <<sent, received>>,
         \A c \in DOMAIN conns : Steady(p, c) \/ conns'[c].shake \in {"queued", "hello"},
         wire' = wire \/ \A c \in DOMAIN conns, q \in Procs : SameWire(c, q)
  PROVE  Streams'
PROOF
<1>1. \A c \in DOMAIN conns, q \in Procs : SameWire(c, q)
  BY DEF SameWire
<1>2. 0 \notin DOMAIN conns
  BY DEF TypeOK
<1>3. QED
  BY <1>1, <1>2, StreamsKept

LEMMA StreamsCall == ASSUME TypeOK, Control, Streams, TypeOK', Control', NEW p \in Procs, Call(p) PROVE Streams'
PROOF
<1>0. p \in Peers /\ p # Stranger /\ DOMAIN conns = 1..Len(conns) /\ Len(conns) \in Nat
  BY NetworkConstants DEF Peers, TypeOK, NetworkConstants
<1>1. ASSUME Idle(p), UNCHANGED <<handles, op, conns, wire, sent, received>> PROVE Streams'
  <2>1. (\A c \in DOMAIN conns : Forward(c, p)) /\ DOMAIN conns' \ DOMAIN conns = {}
    BY <1>1, StillConns
  <2>2. \A c : Steady(p, c)
    BY <1>1, SteadyOthers
  <2>3. QED
    BY <1>1, <2>1, <2>2, StreamsQuiet
<1>2. ASSUME NEW a \in Addresses, Allow(p, a) PROVE Streams'
  BY <1>1, <1>2 DEF Allow, network
<1>3. ASSUME NEW t, SetTimeout(p, t) PROVE Streams'
  BY <1>1, <1>3 DEF SetTimeout, network
<1>4. ASSUME NEW a \in Addresses, Listen(p, a) PROVE Streams'
  <2> DEFINE x == [kind |-> "listener", at |-> a]
  <2>1. Idle(p) /\ Insert(p, x) /\ UNCHANGED <<op, conns, wire, sent, received>>
    BY <1>4 DEF Listen, network
  <2>2. x.kind = "listener"
    OBVIOUS
  <2> HIDE DEF x
  <2>3. /\ DOMAIN handles'[p] = Names(p) \union {created[p] + 1}
        /\ \A n \in DOMAIN handles'[p] : handles'[p][n] = IF n \in Names(p) THEN handles[p][n] ELSE x
    BY <2>1, Inserted
  <2>4. \A n \in Names(p)' : Channel(p, n)' => n \in Names(p) /\ handles'[p][n] = handles[p][n]
    BY <2>2, <2>3 DEF Names, Channel
  <2>5. ~Busy(p) /\ ~Busy(p)'
    BY <2>1 DEF Idle, Busy
  <2>6. \A c : Steady(p, c)
    BY <2>4, <2>5, SteadyIdle
  <2>7. (\A c \in DOMAIN conns : Forward(c, p)) /\ DOMAIN conns' \ DOMAIN conns = {}
    BY <2>1, StillConns
  <2>8. QED
    BY <2>1, <2>6, <2>7, StreamsQuiet
<1>5. ASSUME NEW a \in Addresses, Connect(p, a) PROVE Streams'
  <2>1. PICK proofs \in SUBSET {"client", "server"} : Dial(p, a, proofs)
    BY <1>5 DEF Connect
  <2>2. Idle(p) /\ Start(p, "connect", 0, Len(conns) + 1, << >>) /\ UNCHANGED <<handles, sent, received>>
    BY <1>5 DEF Connect
  <2>3. op'[p] = [fn |-> "connect", handle |-> 0, conn |-> Len(conns) + 1, bytes |-> << >>, age |-> 0, deadline |-> timeout[p]]
    BY <2>2, Called
  <2>4. op'[p].conn = Len(conns) + 1
    BY <2>3
  <2>5. \A c \in DOMAIN conns : op'[p].conn # c
    BY <1>0, <2>4
  <2>6. \A c \in DOMAIN conns : Steady(p, c)
    BY <2>2, <2>5, SteadyCall DEF Idle, Busy
  <2>7. (\A c \in DOMAIN conns : Forward(c, p)) /\ (\A c \in DOMAIN conns' \ DOMAIN conns : New(c, p))
    BY <1>0, <2>1, DialledConns
  <2>8. wire' = wire
    BY <1>0, <2>1, Dialled
  <2>9. QED
    BY <2>2, <2>6, <2>7, <2>8, StreamsQuiet
<1>6. ASSUME NEW h \in Names(p), Accept(p, h) PROVE Streams'
  <2>1. Idle(p) /\ Start(p, "accept", 0, 0, << >>) /\ UNCHANGED <<handles, conns, wire, sent, received>>
    BY <1>6 DEF Accept, network
  <2>2. op'[p] = [fn |-> "accept", handle |-> 0, conn |-> 0, bytes |-> << >>, age |-> 0, deadline |-> timeout[p]]
    BY <2>1, Called
  <2>3. \A c \in DOMAIN conns : op'[p].conn # c
    BY <1>0, <2>2
  <2>4. \A c \in DOMAIN conns : Steady(p, c)
    BY <2>1, <2>3, SteadyCall DEF Idle, Busy
  <2>5. (\A c \in DOMAIN conns : Forward(c, p)) /\ DOMAIN conns' \ DOMAIN conns = {}
    BY <2>1, StillConns
  <2>6. QED
    BY <2>1, <2>4, <2>5, StreamsQuiet
<1>7. ASSUME NEW h \in Names(p), Receive(p, h) PROVE Streams'
  <2>1. PICK c : c = handles[p][h].conn
    OBVIOUS
  <2>2. Idle(p) /\ Channel(p, h) /\ Start(p, "receive", h, c, << >>) /\ Remove(p, h) /\ UNCHANGED <<conns, wire, sent, received>>
    BY <1>7, <2>1 DEF Receive, network
  <2>3. op'[p] = [fn |-> "receive", handle |-> h, conn |-> c, bytes |-> << >>, age |-> 0, deadline |-> timeout[p]]
    BY <2>2, Called
  <2>4. op'[p].conn = c /\ op'[p].bytes = << >> /\ ~Busy(p)
    BY <2>2, <2>3 DEF Idle, Busy
  <2>5. \A d : Steady(p, d)
    BY <2>1, <2>2, <2>4, SteadyOut
  <2>6. (\A d \in DOMAIN conns : Forward(d, p)) /\ DOMAIN conns' \ DOMAIN conns = {}
    BY <2>2, StillConns
  <2>7. QED
    BY <2>2, <2>5, <2>6, StreamsQuiet
<1>8. ASSUME NEW h \in Names(p), NEW m \in Messages, Send(p, h, m) PROVE Streams'
  BY <1>8, StreamsSend
<1>9. ASSUME NEW hs \in SUBSET Names(p), CloseEnds(Held(p, hs), p), UNCHANGED <<op, sent, received>>, Idle(p),
             \A n \in Names(p)' : n \in Names(p) /\ n \notin hs /\ handles'[p][n] = handles[p][n]
      PROVE  Streams'
  <2>1. (\A c \in DOMAIN conns : Forward(c, p)) /\ DOMAIN conns' \ DOMAIN conns = {}
    BY <1>0, <1>9, ClosedConns
  <2>2. ~Busy(p) /\ ~Busy(p)'
    BY <1>9 DEF Idle, Busy
  <2>3. \A c : Steady(p, c)
    BY <1>9, <2>2, SteadyIdle
  <2>4. \A c \in DOMAIN conns, q \in Procs : SameWire(c, q)
    BY <1>9, <2>2, HeldWire
  <2>5. QED
    BY <1>9, <2>1, <2>3, <2>4, StreamsQuiet
<1>10. ASSUME NEW h \in Names(p), WrongKind(p, h) \/ Close(p, h) PROVE Streams'
  <2>1. Remove(p, h) /\ CloseEnds(Held(p, {h}), p) /\ UNCHANGED <<op, sent, received>> /\ Idle(p)
    BY <1>10 DEF WrongKind, Close
  <2>2. DOMAIN handles'[p] = Names(p) \ {h} /\ \A n \in DOMAIN handles'[p] : handles'[p][n] = handles[p][n]
    BY <2>1, Removed
  <2>3. {h} \in SUBSET Names(p) /\ \A n \in Names(p)' : n \in Names(p) /\ n \notin {h} /\ handles'[p][n] = handles[p][n]
    BY <1>10, <2>2 DEF Names
  <2>4. QED
    BY <1>9, <2>1, <2>3
<1>11. ASSUME Drop(p) PROVE Streams'
  <2>1. CloseEnds(Held(p, Names(p)), p) /\ UNCHANGED <<op, sent, received>> /\ Idle(p) /\ handles'[p] = << >>
    BY <1>11 DEF Drop, TypeOK
  <2>2. Names(p)' = {}
    BY <2>1 DEF Names
  <2>3. QED
    BY <1>9, <2>1, <2>2
<1>12. QED
  BY <1>2, <1>3, <1>4, <1>5, <1>6, <1>7, <1>8, <1>10, <1>11 DEF Call

LEMMA StreamsProgress == ASSUME TypeOK, Control, Streams, TypeOK', Control', NEW p \in Procs, Progress(p) PROVE Streams'
PROOF
<1>0. p \in Peers /\ p # Stranger /\ DOMAIN conns = 1..Len(conns) /\ Len(conns) \in Nat
  BY NetworkConstants DEF Peers, TypeOK, NetworkConstants
<1>1. ASSUME NEW c \in DOMAIN conns, AcceptSocket(p, c) PROVE Streams'
  <2>1. /\ Busy(p) /\ op[p].fn = "accept" /\ op[p].conn = 0 /\ op' = [op EXCEPT ![p] = [op[p] EXCEPT !.conn = c]]
        /\ conns' = [conns EXCEPT ![c].shake = "hello"] /\ conns[c].server = p /\ conns[c].shake = "queued"
        /\ UNCHANGED <<handles, wire, sent, received>>
    BY <1>1 DEF AcceptSocket
  <2>2. (\A d \in DOMAIN conns : Forward(d, p)) /\ DOMAIN conns' \ DOMAIN conns = {}
    BY <2>1, ShakenConns
  <2>3. conns'[c].shake = "hello"
    BY <2>1, Shaken
  <2>4. op'[p].conn = c
    <3>1. c \in 0..Len(conns) /\ op[p] \in CallOn(Len(conns))
      BY <1>0, <2>1 DEF TypeOK, CallTyped
    <3>2. \A b \in 0..Len(conns) : LET y == [op[p] EXCEPT !.conn = b] IN y.conn = b
      BY <1>0, <3>1, CallEdited
    <3>3. op'[p] = [op[p] EXCEPT !.conn = c]
      BY <2>1 DEF TypeOK
    <3>4. QED
      BY <3>1, <3>2, <3>3
  <2>5. \A d \in DOMAIN conns : d # c => Steady(p, d)
    BY <2>1, <2>4 DEF Steady, Using, InCall, Names, Channel, Busy
  <2>6. QED
    BY <2>1, <2>2, <2>3, <2>5, StreamsQuiet
<1>2. ASSUME NEW c, c = op[p].conn, Busy(p), op[p].bytes = << >> \/ op[p].fn \notin {"send", "receive"}, Return(p),
             Insert(p, [kind |-> "channel", conn |-> c]) \/ \E h : Restore(p, h, [kind |-> "channel", conn |-> c])
      PROVE  \A d : Steady(p, d)
  <2>1. op'[p] = None
    BY <1>2, Called
  <2>2. PICK x : x = [kind |-> "channel", conn |-> c]
    OBVIOUS
  <2>3. x.conn = c
    BY <2>2
  <2>4. PICK h : DOMAIN handles'[p] = Names(p) \union {h} /\ \A n \in DOMAIN handles'[p] : (n \in Names(p) /\ handles'[p][n] = handles[p][n]) \/ handles'[p][n] = x
    <3>1. CASE Insert(p, x)
      BY <3>1, Inserted
    <3>2. CASE \E h : Restore(p, h, x)
      <4>1. PICK h : Restore(p, h, x)
        BY <3>2
      <4>2. DOMAIN handles'[p] = Names(p) \union {h} /\ \A n \in DOMAIN handles'[p] : handles'[p][n] = IF n = h THEN x ELSE handles[p][n]
        BY <4>1, Restored
      <4>3. QED
        BY <4>2
    <3>3. QED
      BY <1>2, <2>2, <3>1, <3>2
  <2>5. \A n \in Names(p)' : (n \in Names(p) /\ handles'[p][n] = handles[p][n]) \/ handles'[p][n].conn = op[p].conn
    BY <1>2, <2>3, <2>4 DEF Names
  <2>6. QED
    BY <1>2, <2>1, <2>4, <2>5, SteadyBack DEF Names
<1>3. ASSUME ClientShaken(p) \/ ServerShaken(p) PROVE Streams'
  <2>1. PICK c : c = op[p].conn
    OBVIOUS
  <2>2. /\ Busy(p) /\ op[p].fn \notin {"send", "receive"} /\ Return(p) /\ Insert(p, [kind |-> "channel", conn |-> c])
        /\ UNCHANGED <<wire, sent, received>>
    BY <1>3, <2>1 DEF ClientShaken, ServerShaken
  <2>3. \A d : Steady(p, d)
    BY <1>2, <2>1, <2>2
  <2>4. (\A d \in DOMAIN conns : Forward(d, p)) /\ DOMAIN conns' \ DOMAIN conns = {}
    <3>1. CASE ClientShaken(p)
      <4>1. op[p].fn = "connect" /\ conns[c].shake = "hello" /\ Proven(c, "server") /\ conns' = [conns EXCEPT ![c].shake = "finished"]
        BY <2>1, <3>1 DEF ClientShaken
      <4>2. c \in DOMAIN conns /\ conns[c].client = p
        BY <1>0, <2>1, <2>2, <4>1 DEF Control, CallOK, TypeOK, CallTyped, CallOn
      <4>3. QED
        BY <4>1, <4>2, ShakenConns
    <3>2. CASE ServerShaken(p)
      <4>1. op[p].fn = "accept" /\ c # 0 /\ conns[c].shake = "finished" /\ Proven(c, "client") /\ conns' = [conns EXCEPT ![c].shake = "over"]
        BY <2>1, <3>2 DEF ServerShaken
      <4>2. c \in DOMAIN conns /\ conns[c].server = p
        BY <1>0, <2>1, <2>2, <4>1 DEF Control, CallOK, TypeOK, CallTyped, CallOn
      <4>3. QED
        BY <4>1, <4>2, ShakenConns
    <3>3. QED
      BY <1>3, <3>1, <3>2
  <2>5. QED
    BY <2>2, <2>3, <2>4, StreamsQuiet
<1>4. ASSUME Sent(p) PROVE Streams'
  <2>1. PICK c : c = op[p].conn
    OBVIOUS
  <2>2. /\ Busy(p) /\ op[p].bytes = << >> /\ Return(p) /\ Restore(p, op[p].handle, [kind |-> "channel", conn |-> c])
        /\ UNCHANGED <<conns, wire, sent, received>>
    BY <1>4, <2>1 DEF Sent, network
  <2>3. \A d : Steady(p, d)
    BY <1>2, <2>1, <2>2
  <2>4. (\A d \in DOMAIN conns : Forward(d, p)) /\ DOMAIN conns' \ DOMAIN conns = {}
    BY <2>2, StillConns
  <2>5. QED
    BY <2>2, <2>3, <2>4, StreamsQuiet
<1>5. ASSUME Retire(p) PROVE Streams'
  <2>1. PICK c : c = op[p].conn
    OBVIOUS
  <2>2. Busy(p) /\ Return(p) /\ CloseEnds({c} \ {0}, p) /\ UNCHANGED <<handles, sent, received>>
    BY <1>5, <2>1 DEF Retire
  <2>3. op'[p] = None
    BY <2>2, Called
  <2>4. ~Using(p, c)' /\ \A d : Steady(p, d)
    BY <2>1, <2>2, <2>3, SteadyGone
  <2>5. (\A d \in DOMAIN conns : Forward(d, p)) /\ DOMAIN conns' \ DOMAIN conns = {}
    BY <1>0, <2>2, ClosedConns
  <2>6. \A e \in Ends : wire'[e] = wire[e] \/ (e[1] \in {c} \ {0} /\ e[2] = p /\ wire'[e] = << >>)
    BY <1>0, <2>2, Closed
  <2>7. \A d \in DOMAIN conns, q \in Procs : SameWire(d, q)
    <3>1. \A d \in DOMAIN conns, q \in Procs : <<d, q>> \in Ends
      BY EndsOf
    <3>2. QED
      BY <2>4, <2>6, <3>1 DEF SameWire
  <2>8. QED
    BY <2>2, <2>4, <2>5, <2>7, StreamsQuiet
<1>6. ASSUME Tick(p) PROVE Streams'
  <2>1. PICK o : o = [op[p] EXCEPT !.age = op[p].age + 1]
    OBVIOUS
  <2>2. Busy(p) /\ op' = [op EXCEPT ![p] = o] /\ UNCHANGED <<handles, conns, wire, sent, received>>
    BY <1>6, <2>1 DEF Tick, network
  <2>3. op[p] \in CallOn(Len(conns)) /\ op[p].age + 1 \in Nat
    BY <2>2 DEF TypeOK, CallTyped, CallOn
  <2>4. \A a \in Nat : LET x == [op[p] EXCEPT !.age = a] IN
              x \in CallOn(Len(conns)) /\ x.bytes = op[p].bytes /\ x.conn = op[p].conn /\ x.fn = op[p].fn
    BY <1>0, <2>3, CallEdited
  <2>5. o \in CallOn(Len(conns)) /\ o.bytes = op[p].bytes /\ o.conn = op[p].conn /\ o.fn = op[p].fn
    BY <2>1, <2>3, <2>4
  <2>6. \A d : Steady(p, d)
    BY <2>2, <2>5, CallGoesOn
  <2>7. (\A d \in DOMAIN conns : Forward(d, p)) /\ DOMAIN conns' \ DOMAIN conns = {}
    BY <2>2, StillConns
  <2>8. QED
    BY <2>2, <2>6, <2>7, StreamsQuiet
<1>7. QED
  BY <1>1, <1>3, <1>4, <1>5, <1>6, StreamsWrite, StreamsRead, StreamsReceived DEF Progress

LEMMA StreamsStrange == ASSUME TypeOK, Control, Streams, TypeOK', Control', Strange PROVE Streams'
PROOF
<1>0. /\ Stranger \in Peers /\ Stranger \notin Procs /\ UNCHANGED <<handles, op, sent, received>>
      /\ DOMAIN conns = 1..Len(conns) /\ Len(conns) \in Nat /\ \A d \in DOMAIN conns, q \in Procs : <<d, q>> \in Ends
  BY NetworkConstants, EndsOf DEF Peers, Strange, NetworkConstants, TypeOK
<1>1. \A q \in Procs : \A c : Steady(q, c)
  BY <1>0, SteadyOthers
<1>2. ASSUME \A c \in DOMAIN conns : Kept(c), \A c \in DOMAIN conns' : c \in DOMAIN conns \/ conns'[c].shake = "queued",
             \A c \in DOMAIN conns, q \in Procs : wire'[<<c, q>>] = wire[<<c, q>>]
      PROVE  Streams'
  <2>1. \A c \in DOMAIN conns : Untouched(c)
    BY <1>0, <1>1, <1>2 DEF Untouched, SameWire
  <2>2. QED
    BY <1>2, <2>1, StreamsOf
<1>3. ASSUME NEW a \in Addresses, Dial(Stranger, a, {"client", "server"}) PROVE Streams'
  <2>1. (\A c \in DOMAIN conns : Forward(c, Stranger)) /\ (\A c \in DOMAIN conns' \ DOMAIN conns : New(c, Stranger))
    BY <1>0, <1>3, DialledConns
  <2>2. wire' = wire
    BY <1>0, <1>3, Dialled
  <2>3. QED
    BY <1>2, <2>1, <2>2 DEF Forward, New
<1>4. ASSUME NEW c \in DOMAIN conns, conns' = [conns EXCEPT ![c].shake = "finished"], UNCHANGED <<strange, wire>>
      PROVE Streams'
  <2>1. DOMAIN conns' = DOMAIN conns /\ Kept(c) /\ \A d \in DOMAIN conns \ {c} : conns'[d] = conns[d]
    BY <1>4, Shaken
  <2>2. \A d \in DOMAIN conns : Kept(d)
    BY <2>1 DEF Kept
  <2>3. QED
    BY <1>2, <1>4, <2>1, <2>2
<1>5. ASSUME NEW c \in DOMAIN conns, NEW b, UNCHANGED conns, wire' = [wire EXCEPT ![<<c, Stranger>>] = Append(wire[<<c, Stranger>>], b)]
      PROVE  Streams'
  <2>1. \A d \in DOMAIN conns, q \in Procs : wire'[<<d, q>>] = wire[<<d, q>>]
    BY <1>0, <1>5 DEF TypeOK
  <2>2. QED
    BY <1>2, <1>5, <2>1 DEF Kept
<1>6. ASSUME NEW c \in DOMAIN conns, CloseEnds({c}, Stranger) PROVE Streams'
  <2>1. (\A d \in DOMAIN conns : Forward(d, Stranger)) /\ DOMAIN conns' \ DOMAIN conns = {}
    BY <1>0, <1>6, ClosedConns
  <2>2. \A e \in Ends : wire'[e] = wire[e] \/ e[2] = Stranger
    BY <1>0, <1>6, Closed
  <2>3. \A d \in DOMAIN conns, q \in Procs : wire'[<<d, q>>] = wire[<<d, q>>]
    BY <1>0, <2>2
  <2>4. QED
    BY <1>2, <2>1, <2>3 DEF Forward
<1>7. QED
  BY <1>3, <1>4, <1>5, <1>6 DEF Strange

(* The inductive invariant: every byte on its way, in a call or given to a *)
(* program is in its place among those that the messages are written as.   *)
THEOREM NetworkStreams == Spec => [](TypeOK /\ Control /\ Streams)
PROOF
<1>1. Init => Streams
  BY DEF Init, Streams
<1>2. TypeOK /\ Control /\ Streams /\ TypeOK' /\ Control' /\ [Next]_vars => Streams'
  <2>1. ASSUME Streams, UNCHANGED vars PROVE Streams'
    BY <2>1 DEF Streams, Stream, vars, Joined, Using, InCall, Names, Busy, Channel
  <2>2. QED
    BY <2>1, StreamsCall, StreamsProgress, StreamsStrange DEF Next
<1>3. QED
  BY <1>1, <1>2, NetworkControl, PTL DEF Spec

LEMMA StreamPrefix ==
  ASSUME TypeOK, Control, Streams, NEW c \in DOMAIN conns, NEW q \in Procs, NEW p \in Procs, Joined(c, q, p)
  PROVE  Len(received[<<c, p>>]) <= Len(sent[<<c, q>>]) /\ received[<<c, p>>] = SubSeq(sent[<<c, q>>], 1, Len(received[<<c, p>>]))
PROOF
<1>1. PICK ms, rs : ms = sent[<<c, q>>] /\ rs = received[<<c, p>>]
  OBVIOUS
<1>2. ms \in Seq(Seq(Nat)) /\ rs \in Seq(Seq(Nat))
  BY <1>1, EndsOf DEF TypeOK
<1>3. Stream(c, q, p)
  BY DEF Streams
<1>4. Len(rs) <= Len(ms) /\ Part(rs, Len(rs), ms, 0)
  BY <1>1, <1>3 DEF Stream, Carried
<1>5. \A i \in 1..Len(rs) : rs[i] = ms[i]
  <2>1. \A i \in 1..Len(rs) : 0 + i = i
    OBVIOUS
  <2>2. QED
    BY <1>4, <2>1 DEF Part
<1>6. PICK v : v = SubSeq(ms, 1, Len(rs))
  OBVIOUS
<1>7. v \in Seq(Seq(Nat)) /\ Len(v) = Len(rs) /\ \A i \in 1..Len(rs) : v[i] = ms[i]
  BY <1>2, <1>4, <1>6
<1>8. rs = v
  BY <1>2, <1>5, <1>7, SameElements
<1>9. QED
  BY <1>1, <1>4, <1>6, <1>8

(* What an execution is given over a connection to another one is what     *)
(* that one began to send, in order and without a gap (send and receive,   *)
(* networking.rs).                                                         *)
THEOREM SpecReceivedInOrder == Spec => []ReceivedInOrder
PROOF
<1>1. TypeOK /\ Control /\ Streams => ReceivedInOrder
  <2>1. SUFFICES ASSUME TypeOK, Control, Streams, NEW c \in DOMAIN conns, NEW p \in Procs,
                        p \in {conns[c].client, conns[c].server}, Other(c, p) # Stranger
                 PROVE  /\ Len(received[c, p]) <= Len(sent[c, Other(c, p)])
                        /\ received[c, p] = SubSeq(sent[c, Other(c, p)], 1, Len(received[c, p]))
    BY DEF ReceivedInOrder
  <2>2. PICK q : q = Other(c, p)
    OBVIOUS
  <2>3. conns[c] \in Connection /\ q \in Procs
    <3>1. conns[c] \in Connection
      BY <2>1 DEF TypeOK
    <3>2. QED
      BY <2>1, <2>2, <3>1 DEF Connection, Other, Peers
  <2>4. Joined(c, q, p)
    BY <2>1, <2>2 DEF Joined, Other
  <2>5. QED
    BY <2>1, <2>2, <2>3, <2>4, StreamPrefix
<1>2. QED
  BY <1>1, NetworkStreams, PTL

(* Nothing is received but what the other end sent, in order, and from an  *)
(* end that proved who it is: before the server has checked its client, no *)
(* message was sent to that client (finish of TlsChannel, networking.rs).  *)
THEOREM SpecOnlyWhatWasSent == Spec => []OnlyWhatWasSent
PROOF
<1>1. TypeOK /\ Control /\ Streams => BothProven
  <2>1. SUFFICES ASSUME TypeOK, Control, Streams, NEW e \in Ends, received[e] # << >>
                 PROVE  conns[e[1]].proves = {"client", "server"}
    BY DEF BothProven
  <2>2. PICK c, p : c = e[1] /\ p = e[2] /\ e = <<c, p>>
    BY <2>1 DEF Ends
  <2>3. Started(c, p) /\ c \in DOMAIN conns /\ ConnOK(c)
    BY <2>1, <2>2 DEF Control, Fresh, Started
  <2>4. conns[c] \in Connection
    BY <2>1, <2>3 DEF TypeOK
  <2>5. conns[c].proves \subseteq {"client", "server"} /\ conns[c].client \in Procs \union {Stranger} /\ conns[c].server \in Procs
    BY <2>4 DEF Connection, Peers
  <2>6. CASE conns[c].shake = "over"
    BY <2>2, <2>3, <2>5, <2>6 DEF ConnOK
  <2>7. CASE conns[c].client = Stranger
    BY <2>2, <2>3, <2>7 DEF ConnOK
  <2>8. CASE conns[c].shake # "over" /\ conns[c].client # Stranger
    <3>1. PICK q : q = conns[c].server
      OBVIOUS
    <3>2. p = conns[c].client /\ p \in Procs /\ q \in Procs /\ Joined(c, q, p)
      BY <2>3, <2>5, <2>8, <3>1 DEF Started, Joined
    <3>3. Len(received[<<c, p>>]) <= Len(sent[<<c, q>>])
      BY <2>1, <2>3, <3>2, StreamPrefix
    <3>4. ~Started(c, q) /\ <<c, q>> \in Ends
      BY <2>1, <2>3, <2>8, <3>1, <3>2, EndsOf DEF Started, ConnOK
    <3>5. sent[<<c, q>>] = << >>
      BY <2>1, <3>4 DEF Control, Fresh
    <3>6. received[<<c, p>>] \in Seq(Seq(Nat)) /\ received[<<c, p>>] # << >>
      BY <2>1, <2>2 DEF TypeOK
    <3>7. QED
      BY <3>3, <3>5, <3>6
  <2>9. QED
    BY <2>6, <2>7, <2>8
<1>2. BothProven /\ ReceivedInOrder => OnlyWhatWasSent
  BY DEF OnlyWhatWasSent
<1>3. QED
  BY <1>1, <1>2, NetworkStreams, SpecReceivedInOrder, PTL

=============================================================================
