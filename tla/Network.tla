------------------------------ MODULE Network -------------------------------
(***************************************************************************)
(* Messages between two programs, src/src/networking.rs.  An execution has *)
(* one Network: its listeners and connections, by the handle it gave for   *)
(* each.  A caller makes one call at a time and may go on after an error.  *)
(* TCP and TLS are the environment: bytes arrive in order or not at all,   *)
(* and a connection whose handshake is over has the peers that it says.    *)
(***************************************************************************)
EXTENDS Integers, Sequences, FiniteSets, Functions

CONSTANTS
  Procs,          \* executions
  Uses,           \* the functions each of them calls
  Stranger,       \* another program, which holds a certificate of the same authority
  Addresses, Loopback,   \* the others must be named to net_allow
  Messages,       \* texts, as their bytes
  MaxMessage,     \* MAX_MESSAGE, in bytes
  MaxHandles, MaxCreated,
  DefaultTimeout, MaxTimeout,   \* 30 s and 60 s, in the ticks of a deadline
  MaxConns, MaxSent, MaxStrange,   \* bounds: connections, messages, a stranger's bytes
  NotText,        \* a byte that no text has
  None

ASSUME NetworkConstants ==
  /\ {MaxMessage, MaxHandles, MaxCreated, MaxConns, MaxSent, MaxStrange} \subseteq Nat
  /\ MaxTimeout \in Nat \ {0} /\ DefaultTimeout \in 1..MaxTimeout /\ Stranger \notin Procs /\ Loopback \subseteq Addresses
  /\ \A m \in Messages : m \in Seq(Nat)
  /\ None \notin [fn : {"connect", "accept", "send", "receive"}, handle : Nat, conn : Nat, bytes : Seq(Nat),
                  age : Nat, deadline : Nat]

VARIABLES
  handles,        \* execution -> handle -> listener or channel
  created, allowed, timeout,
  ended,          \* executions that are over
  op,             \* execution -> the call in progress, or None
  conns,          \* connections: the two ends, what each may prove, the handshake, the open ends
  strange,        \* bytes the stranger wrote
  wire,           \* connection and end -> the bytes that end wrote and the other has not read
  sent, received  \* history: connection and end -> the messages it began to send, was given

vars == <<handles, created, ended, allowed, timeout, op, conns, strange, wire, sent, received>>
network == <<conns, strange, wire>>

Peers == Procs \union {Stranger}
Other(c, p) == IF conns[c].client = p THEN conns[c].server ELSE conns[c].client
Ends == (1..MaxConns) \X Peers
Names(p) == DOMAIN handles[p]
Channel(p, h) == h \in Names(p) /\ handles[p][h].kind = "channel"

Init ==
  /\ handles = [p \in Procs |-> << >>] /\ created = [p \in Procs |-> 0] /\ ended = {}
  /\ allowed = [p \in Procs |-> {}] /\ timeout = [p \in Procs |-> DefaultTimeout]
  /\ op = [p \in Procs |-> None] /\ conns = << >> /\ strange = 0
  /\ wire = [e \in Ends |-> << >>] /\ sent = [e \in Ends |-> << >>] /\ received = [e \in Ends |-> << >>]

-----------------------------------------------------------------------------
(* The checks of a call.  Loopback needs no permission.                    *)
Permitted(p, a) == a \in Loopback \/ a \in allowed[p]
Capacity(p) == Cardinality(Names(p)) < MaxHandles /\ created[p] < MaxCreated
Idle(p) == op[p] = None /\ p \notin ended
Busy(p) == op[p] # None

(* insert: a name that no handle had.                                      *)
Insert(p, x) ==
  /\ created' = [created EXCEPT ![p] = @ + 1]
  /\ handles' = [handles EXCEPT ![p] = [h \in DOMAIN @ \union {created[p] + 1} |->
                                          IF h \in DOMAIN @ THEN @[h] ELSE x]]
Remove(p, h) == handles' = [handles EXCEPT ![p] = Restrict(@, DOMAIN @ \ {h})]
Restore(p, h, x) == handles' = [handles EXCEPT ![p] = [n \in DOMAIN @ \union {h} |-> IF n = h THEN x ELSE @[n]]]

(* A call with a deadline, which no byte of the peer moves.  Its bytes are *)
(* those that are left to send, or those received so far.                  *)
Start(p, fn, h, c, bytes) ==
  op' = [op EXCEPT ![p] = [fn |-> fn, handle |-> h, conn |-> c, bytes |-> bytes, age |-> 0, deadline |-> timeout[p]]]
Return(p) == op' = [op EXCEPT ![p] = None]
InTime(p) == op[p].age < op[p].deadline

(* DeadlineSocket: what is left of the deadline is set for every read and  *)
(* write.  Mutant: every read starts the allowance again.                  *)
NextDeadline(o, t) == o.age + t
Deadline(o, t) == o.deadline

Tick(p) ==
  /\ Busy(p) /\ InTime(p) /\ op' = [op EXCEPT ![p].age = @ + 1]
  /\ UNCHANGED <<handles, created, ended, allowed, timeout, network, sent, received>>

(* An end is closed.  Bytes it wrote and the peer has not read are lost if *)
(* the operating system resets the connection.                             *)
CloseEnds(cs, p) ==
  /\ UNCHANGED strange
  /\ conns' = [c \in DOMAIN conns |-> IF c \in cs THEN [conns[c] EXCEPT !.open = @ \ {p}] ELSE conns[c]]
  /\ \E lost \in SUBSET cs : wire' = [e \in Ends |-> IF e[1] \in lost /\ e[2] = p THEN << >> ELSE wire[e]]

-----------------------------------------------------------------------------
(* net_allow, net_timeout.                                                 *)
Allow(p, a) ==
  /\ Idle(p) /\ allowed' = [allowed EXCEPT ![p] = @ \union {a}]
  /\ UNCHANGED <<handles, created, ended, timeout, op, network, sent, received>>
SetTimeout(p, t) ==
  /\ Idle(p) /\ t # timeout[p] /\ timeout' = [timeout EXCEPT ![p] = t]
  /\ UNCHANGED <<handles, created, ended, allowed, op, network, sent, received>>

Bound(a) == \E p \in Procs : \E h \in Names(p) : handles[p][h].kind = "listener" /\ handles[p][h].at = a

(* net_listen.                                                             *)
Listen(p, a) ==
  /\ Idle(p) /\ Capacity(p) /\ Permitted(p, a) /\ ~Bound(a)
  /\ Insert(p, [kind |-> "listener", at |-> a])
  /\ UNCHANGED <<ended, allowed, timeout, op, network, sent, received>>

(* A connection to a listener waits in its queue.  proves: the end has a   *)
(* certificate that the other end's roots, and the name it asks, accept.   *)
Dial(p, a, proofs) ==
  \E q \in Procs : \E h \in Names(q) :
    /\ q # p /\ handles[q][h].kind = "listener" /\ handles[q][h].at = a /\ Len(conns) < MaxConns
    /\ conns' = Append(conns, [client |-> p, server |-> q, at |-> a, proves |-> proofs,
                               shake |-> "queued", open |-> {p, q}])
    /\ UNCHANGED <<strange, wire>>

(* net_connect: to the end of the handshake, under one deadline.           *)
Connect(p, a) ==
  /\ Idle(p) /\ Capacity(p) /\ Permitted(p, a)
  /\ \E proofs \in SUBSET {"client", "server"} : Dial(p, a, proofs)
  /\ Start(p, "connect", 0, Len(conns) + 1, << >>)
  /\ UNCHANGED <<handles, created, ended, allowed, timeout, sent, received>>

(* net_accept: the deadline also runs while nobody connects.               *)
Accept(p, h) ==
  /\ Idle(p) /\ Capacity(p) /\ h \in Names(p) /\ handles[p][h].kind = "listener"
  /\ Start(p, "accept", 0, 0, << >>)
  /\ UNCHANGED <<handles, created, ended, allowed, timeout, network, sent, received>>
AcceptSocket(p, c) ==
  /\ Busy(p) /\ op[p].fn = "accept" /\ op[p].conn = 0 /\ InTime(p)
  /\ conns[c].server = p /\ conns[c].shake = "queued"
  /\ op' = [op EXCEPT ![p].conn = c] /\ conns' = [conns EXCEPT ![c].shake = "hello"]
  /\ UNCHANGED <<handles, created, ended, allowed, timeout, strange, wire, sent, received>>

(* Mutant: a certificate is not asked for.                                 *)
Unasked(c, end) == conns[c].shake # "over"
Proven(c, end) == end \in conns[c].proves

(* The client's handshake is over when it has checked the server, which    *)
(* has not checked the client yet; the server's when it has.               *)
ClientShaken(p) ==
  LET c == op[p].conn
  IN /\ Busy(p) /\ op[p].fn = "connect" /\ InTime(p)
     /\ conns[c].shake = "hello" /\ p \in conns[c].open /\ Proven(c, "server")
     /\ conns' = [conns EXCEPT ![c].shake = "finished"]
     /\ Insert(p, [kind |-> "channel", conn |-> c]) /\ Return(p)
     /\ UNCHANGED <<ended, allowed, timeout, strange, wire, sent, received>>
ServerShaken(p) ==
  LET c == op[p].conn
  IN /\ Busy(p) /\ op[p].fn = "accept" /\ c # 0 /\ InTime(p)
     /\ conns[c].shake = "finished" /\ Proven(c, "client")
     /\ conns' = [conns EXCEPT ![c].shake = "over"]
     /\ Insert(p, [kind |-> "channel", conn |-> c]) /\ Return(p)
     /\ UNCHANGED <<ended, allowed, timeout, strange, wire, sent, received>>

-----------------------------------------------------------------------------
Total == FoldFunctionOnSet(LAMBDA m, n : Len(m) + n, 0, sent, Ends)

(* net_send: the connection is out of the handles while bytes are written, *)
(* the length before the text.                                             *)
Send(p, h, m) ==
  /\ Idle(p) /\ Len(m) <= MaxMessage /\ Channel(p, h) /\ Total < MaxSent
  /\ Start(p, "send", h, handles[p][h].conn, <<Len(m)>> \o m)
  /\ Remove(p, h) /\ sent' = [sent EXCEPT ![<<handles[p][h].conn, p>>] = Append(@, m)]
  /\ UNCHANGED <<created, ended, allowed, timeout, network, received>>
Write(p) ==
  /\ Busy(p) /\ op[p].fn = "send" /\ op[p].bytes # << >> /\ InTime(p) /\ p \in conns[op[p].conn].open
  /\ wire' = [wire EXCEPT ![<<op[p].conn, p>>] = Append(@, Head(op[p].bytes))]
  /\ op' = [op EXCEPT ![p].bytes = Tail(@)]
  /\ UNCHANGED <<handles, created, ended, allowed, timeout, conns, strange, sent, received>>
Sent(p) ==
  /\ Busy(p) /\ op[p].fn = "send" /\ op[p].bytes = << >>
  /\ Restore(p, op[p].handle, [kind |-> "channel", conn |-> op[p].conn]) /\ Return(p)
  /\ UNCHANGED <<created, ended, allowed, timeout, network, sent, received>>

(* net_receive: four bytes of length, then so many of text.                *)
Receive(p, h) ==
  /\ Idle(p) /\ Channel(p, h)
  /\ Start(p, "receive", h, handles[p][h].conn, << >>)
  /\ Remove(p, h)
  /\ UNCHANGED <<created, ended, allowed, timeout, network, sent, received>>
Whole(got) == got # << >> /\ Len(got) = 1 + got[1]
Oversize(got) == got # << >> /\ got[1] > MaxMessage
Read(p) ==
  LET c == op[p].conn
  IN /\ Busy(p) /\ op[p].fn = "receive" /\ ~Whole(op[p].bytes) /\ ~Oversize(op[p].bytes) /\ InTime(p)
     /\ wire[c, Other(c, p)] # << >>
     /\ op' = [op EXCEPT ![p].bytes = Append(@, Head(wire[c, Other(c, p)])), ![p].deadline = Deadline(op[p], timeout[p])]
     /\ wire' = [wire EXCEPT ![<<c, Other(c, p)>>] = Tail(@)]
     /\ UNCHANGED <<handles, created, ended, allowed, timeout, conns, strange, sent, received>>
Received(p) ==
  LET text == Tail(op[p].bytes)
  IN /\ Busy(p) /\ op[p].fn = "receive" /\ Whole(op[p].bytes) /\ ~Oversize(op[p].bytes)
     /\ NotText \notin Range(text)
     /\ received' = [received EXCEPT ![<<op[p].conn, p>>] = Append(@, text)]
     /\ Restore(p, op[p].handle, [kind |-> "channel", conn |-> op[p].conn]) /\ Return(p)
     /\ UNCHANGED <<created, ended, allowed, timeout, network, sent>>

(* What ends a call with an error: its deadline, the peer, or what it got. *)
Broken(p) ==
  LET o == op[p]  c == o.conn
  IN \/ ~InTime(p)
     \/ c # 0 /\ Other(c, p) \notin conns[c].open
        /\ (o.fn # "receive" \/ wire[c, Other(c, p)] = << >>)
     \/ o.fn = "connect" /\ conns[c].shake = "hello" /\ ~Proven(c, "server")
     \/ o.fn = "accept" /\ c # 0 /\ conns[c].shake = "finished" /\ ~Proven(c, "client")
     \/ o.fn = "receive" /\ (Oversize(o.bytes) \/ (Whole(o.bytes) /\ NotText \in Range(Tail(o.bytes))))

(* Failure retires the connection.  Mutant: a failed call gives it back.   *)
GiveBack(p) ==
  /\ Busy(p) /\ Broken(p) /\ Return(p) /\ UNCHANGED network
  /\ IF op[p].fn \in {"send", "receive"}
       THEN Restore(p, op[p].handle, [kind |-> "channel", conn |-> op[p].conn]) ELSE UNCHANGED handles
  /\ UNCHANGED <<created, ended, allowed, timeout, sent, received>>
Retire(p) ==
  /\ Busy(p) /\ Broken(p) /\ Return(p) /\ CloseEnds({op[p].conn} \ {0}, p)
  /\ UNCHANGED <<handles, created, ended, allowed, timeout, sent, received>>

(* The connections behind handles: a listener's queue goes with it.        *)
Held(p, hs) == {handles[p][h].conn : h \in {n \in hs : Channel(p, n)}}
  \union {c \in DOMAIN conns : /\ conns[c].server = p /\ conns[c].shake = "queued"
                               /\ \E h \in hs : handles[p][h].kind = "listener" /\ handles[p][h].at = conns[c].at}

(* net_send or net_receive of a listener: it is taken out before its kind  *)
(* is looked at, and closed.                                               *)
WrongKind(p, h) ==
  /\ Idle(p) /\ h \in Names(p) /\ handles[p][h].kind = "listener" /\ Remove(p, h)
  /\ CloseEnds(Held(p, {h}), p)
  /\ UNCHANGED <<created, ended, allowed, timeout, op, sent, received>>

(* net_close; the end of an execution closes them all.                     *)
Close(p, h) ==
  /\ Idle(p) /\ h \in Names(p) /\ Remove(p, h) /\ CloseEnds(Held(p, {h}), p)
  /\ UNCHANGED <<created, ended, allowed, timeout, op, sent, received>>
Drop(p) ==
  /\ Idle(p) /\ CloseEnds(Held(p, Names(p)), p)
  /\ handles' = [handles EXCEPT ![p] = << >>] /\ ended' = ended \union {p}
  /\ UNCHANGED <<created, allowed, timeout, op, sent, received>>

-----------------------------------------------------------------------------
(* Another program connects, and writes any bytes at any pace.             *)
Strange ==
  /\ \/ \E a \in Addresses : Dial(Stranger, a, {"client", "server"})
     \/ \E c \in DOMAIN conns : /\ conns[c].client = Stranger /\ Stranger \in conns[c].open /\ conns[c].shake = "hello"
                                /\ conns' = [conns EXCEPT ![c].shake = "finished"] /\ UNCHANGED <<strange, wire>>
     \/ \E c \in DOMAIN conns, b \in 0..(MaxMessage + 1) :
          /\ conns[c].client = Stranger /\ Stranger \in conns[c].open /\ conns[c].shake = "over"
          /\ strange < MaxStrange /\ strange' = strange + 1
          /\ wire' = [wire EXCEPT ![<<c, Stranger>>] = Append(@, b)] /\ UNCHANGED conns
     \/ \E c \in DOMAIN conns : conns[c].client = Stranger /\ CloseEnds({c}, Stranger)
  /\ UNCHANGED <<handles, created, ended, allowed, timeout, op, sent, received>>

(* The functions a program uses are a bound of the model.                  *)
Call(p) ==
  \/ "net_allow" \in Uses[p] /\ \E a \in Addresses \ Loopback : Allow(p, a)
  \/ "net_timeout" \in Uses[p] /\ \E t \in 1..MaxTimeout : SetTimeout(p, t)
  \/ "net_listen" \in Uses[p] /\ \E a \in Addresses : Listen(p, a)
  \/ "net_connect" \in Uses[p] /\ \E a \in Addresses : Connect(p, a)
  \/ \E h \in Names(p) : Accept(p, h) \/ WrongKind(p, h) \/ Receive(p, h)
  \/ \E h \in Names(p), m \in Messages : Send(p, h, m)
  \/ "net_close" \in Uses[p] /\ \E h \in Names(p) : Close(p, h)
  \/ Drop(p)
Progress(p) ==
  \/ \E c \in DOMAIN conns : AcceptSocket(p, c)
  \/ ClientShaken(p) \/ ServerShaken(p) \/ Write(p) \/ Sent(p) \/ Read(p) \/ Received(p)
  \/ Retire(p) \/ Tick(p)
Next == Strange \/ \E p \in Procs : Call(p) \/ Progress(p)
Spec == Init /\ [][Next]_vars

-----------------------------------------------------------------------------
(* What an execution is given over a connection to another one is what     *)
(* that one began to send, whole, in order and without a gap, after any    *)
(* failed or cut-off send and whatever was closed on the way.              *)
ReceivedInOrder ==
  \A c \in DOMAIN conns, p \in Procs :
    p \in {conns[c].client, conns[c].server} /\ Other(c, p) # Stranger =>
      /\ Len(received[c, p]) <= Len(sent[c, Other(c, p)])
      /\ received[c, p] = SubSeq(sent[c, Other(c, p)], 1, Len(received[c, p]))

(* No call lasts longer than the time-out that was set when it began, at   *)
(* whatever pace the bytes of the peer arrive.                             *)
DeadlineAbsolute == \A p \in Procs : Busy(p) => op[p].age <= MaxTimeout

(* A message is only received over a connection on which both ends proved  *)
(* who they are.                                                           *)
BothProven ==
  \A e \in Ends : received[e] # << >> => conns[e[1]].proves = {"client", "server"}

(* What is received is what the other end sent, in order, and only from an *)
(* end that proved who it is.                                              *)
OnlyWhatWasSent == ReceivedInOrder /\ BothProven
=============================================================================
