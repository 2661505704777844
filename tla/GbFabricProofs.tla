---------------------------- MODULE GbFabricProofs ---------------------------
(***************************************************************************)
(* The network tier, for any threads, slots, pointers, blocks, connections  *)
(* and losses: a response is to the thread that waits for it, a block of    *)
(* the live connection is accounted for at both ends, and a slot is pinned  *)
(* by the launches that are under way, as long as no kernel is launched on  *)
(* a pointer that is being freed.  And if no copy fails on the feeder's     *)
(* GPU, a copy back gives what was last written, or a write that is in      *)
(* doubt.                                                                   *)
(***************************************************************************)
EXTENDS GbFabric, FiniteSetTheorems, SequenceTheorems, TLAPS

Ops == {"idle", "malloc", "malloc_tier", "note", "mem_info", "h2d", "memset", "d2h", "exec", "free",
        "undo", "beat"}
Steps == {"idle", "send", "recv", "insert", "spin", "unuse", "release"}
Datum == Copied \cup Filled \cup {Junk}

Slot == [ptr : Ptrs \cup {NoPtr}, handle : Nat, refs : Int]
Call == [op : Ops, step : Steps, ptr : Ptrs \cup {NoPtr}, slot : Nat, handle : Nat, val : Datum]
Msg == [op : Ops, of : Everyone, handle : Nat, val : Datum]
Answer == [of : Everyone, ok : BOOLEAN, handle : Nat, val : Datum]

HostShape ==
  /\ link \in {0} \cup Conns /\ lock \in Everyone \cup {NoOne} /\ (lock # NoOne => link # 0)
  /\ table \in [Slots -> Slot] /\ call \in [Everyone -> Call]
  /\ held \in [Ptrs -> Threads \cup {NoOne}]

WireShape ==
  /\ net \in Seq({"up", "cut"})
  /\ req \in [Conns -> Seq(Msg)] /\ resp \in [Conns -> Seq(Answer)]

\* Every block has been given a handle of its own, by a client that is connected.
FeederShape ==
  /\ clients \subseteq Conns /\ handles \in Nat
  /\ IsFiniteSet(DOMAIN block) /\ DOMAIN block \subseteq 1 .. handles
  /\ \A h \in DOMAIN block : block[h].owner \in clients /\ block[h].data \in Datum
                             /\ block[h] = [owner |-> block[h].owner, data |-> block[h].data]
  /\ DOMAIN group \subseteq Conns /\ \A k \in DOMAIN group : group[k] \in Int

Mallocs == {"malloc", "malloc_tier"}
Frees == {"free", "undo"}

\* Which steps an operation takes, and when it has a handle.
Proper(c) ==
  /\ c.step \in {"spin", "unuse"} => c.op = "free"
  /\ c.step = "insert" => c.op \in Mallocs
  /\ c.op = "exec" => c.step \in {"send", "recv", "release"}
  /\ c.step = "release" => c.op = "exec"
  /\ c.op \in Mallocs /\ c.step # "insert" => c.handle = 0

\* Who waits for a response is who has per_lock.
CallOK(t) ==
  /\ call[t].step = "recv" <=> lock = t
  /\ Proper(call[t]) /\ call[t].handle <= handles
  /\ t = Hb => call[t].op \in {"idle", "beat"}

Calls == \A t \in Everyone : CallOK(t)

\* The one response is to the thread that has per_lock, and says what that asked for.
RespOK ==
  /\ Len(resp[link]) <= 1
  /\ resp[link] # <<>> =>
       /\ resp[link][1].of = lock /\ resp[link][1].handle <= handles
       /\ resp[link][1].handle # 0 => resp[link][1].ok /\ call[lock].op \in Mallocs
       /\ ~resp[link][1].ok => resp[link][1].handle = 0
       /\ call[lock].op \in Frees => call[lock].handle \notin DOMAIN block

\* What is on its way to the feeder is notes, and the request of that thread, unless it was answered.
ReqOK ==
  /\ \A i, j \in 1 .. Len(req[link]) : Answered(req[link][i]) /\ Answered(req[link][j]) => i = j
  /\ \A i \in 1 .. Len(req[link]) : Answered(req[link][i]) =>
       /\ resp[link] = <<>> /\ req[link][i].of = lock
       /\ req[link][i].op = "malloc" => call[lock].op \in Mallocs
       /\ call[lock].op \in Frees => req[link][i].op = "free" /\ req[link][i].handle = call[lock].handle

Wired == link # 0 => RespOK /\ (net[link] = "up" => ReqOK)

\* A pointer has one slot; who frees it has it for itself until the slot is given up.
Freeing(t) == call[t].op = "free" /\ call[t].step \in {"spin", "unuse"}

SlotsOK ==
  /\ \A s, u \in Slots : table[s].ptr = table[u].ptr /\ table[s].ptr # NoPtr => s = u
  /\ \A s \in Slots : table[s].handle <= handles
  /\ \A p \in Ptrs : held[p] # NoOne => p \in Mapped
  /\ \A t \in Threads : Freeing(t) =>
       /\ call[t].slot \in Slots /\ call[t].ptr \in Ptrs /\ held[call[t].ptr] = NoOne
       /\ table[call[t].slot].ptr = call[t].ptr /\ table[call[t].slot].handle = call[t].handle
       /\ call[t].step = "unuse" => table[call[t].slot].refs = 0
  /\ \A t, u \in Threads : Freeing(t) /\ Freeing(u) /\ call[t].slot = call[u].slot => t = u
  /\ \A t \in Threads : call[t].op = "exec" => call[t].slot \in Slots /\ call[t].ptr \in Ptrs

IInv ==
  /\ HostShape /\ WireShape /\ FeederShape /\ Calls /\ Wired /\ SlotsOK
  /\ AccountsExact /\ PinsExact /\ NothingLost

-----------------------------------------------------------------------------
(* The operators of the model. *)

LEMMA ConnsAre == ASSUME WireShape PROVE Conns = 1 .. Len(net) /\ Len(net) \in Nat
BY DEF WireShape, Conns

LEMMA IdleIsCall == Idle \in Call
BY DEF Idle, Call, Ops, Steps, Datum

LEMMA SlotOfMapped ==
  ASSUME HostShape, NEW p \in Mapped
  PROVE  p \in Ptrs /\ SlotOf(p) \in Slots /\ table[SlotOf(p)].ptr = p
<1>1. PICK s \in Slots : table[s].ptr = p /\ p # NoPtr
  BY DEF Mapped
<1>2. SlotOf(p) \in Slots /\ table[SlotOf(p)].ptr = p
  BY <1>1 DEF SlotOf
<1> QED BY <1>1, <1>2 DEF HostShape, Slot

LEMMA AppendIn ==
  ASSUME NEW S, NEW n \in Nat, NEW f \in [1 .. n -> S], NEW x \in S
  PROVE  Append(f, x) \in [1 .. n + 1 -> S]
<1>1. f \in Seq(S) /\ Len(f) = n
  OBVIOUS
<1>2. Append(f, x) \in Seq(S) /\ Len(Append(f, x)) = n + 1
  BY <1>1
<1> QED BY <1>2, LenProperties

LEMMA AppendAt ==
  ASSUME NEW S, NEW n \in Nat, NEW f \in [1 .. n -> S], NEW x \in S
  PROVE  \A i \in 1 .. n + 1 : Append(f, x)[i] = IF i = n + 1 THEN x ELSE f[i]
<1>1. f \in Seq(S) /\ Len(f) = n
  OBVIOUS
<1> QED BY <1>1

LEMMA TailOfOne ==
  ASSUME NEW S, NEW s \in Seq(S), s # <<>>, Len(s) <= 1
  PROVE  Tail(s) = <<>>
<1>1. Len(s) \in Nat \ {0}
  BY EmptySeq
<1>2. Len(s) = 1
  BY <1>1
<1>3. Tail(s) \in Seq(S) /\ Len(Tail(s)) = Len(s) - 1
  BY HeadTailProperties
<1>4. Len(Tail(s)) \notin Nat \ {0}
  BY <1>2, <1>3
<1> QED BY <1>3, <1>4, EmptySeq

-----------------------------------------------------------------------------
(* What each action of the host does to the call of its thread. *)

\* t starts a call without a pin or a free.
LEMMA BeginEffect ==
  ASSUME IInv, NEW t \in Threads, Request(t) \/ MemInfo(t) \/ Copy(t)
  PROVE  \E c \in Call :
           /\ call' = [call EXCEPT ![t] = c] /\ call[t] = Idle
           /\ c.step = "send" /\ c.op \notin {"exec", "free", "undo", "idle", "beat"} /\ c.handle <= handles
           /\ c.op \in Mallocs => c.handle = 0
<1> USE DEF IInv, HostShape, SlotsOK, Starts, Call, Slot, Ops, Steps, Datum, Mallocs
<1>1. CASE Request(t) \/ MemInfo(t)
  <2>1. PICK op \in {"malloc", "malloc_tier", "note", "mem_info"} : Starts(t, op, "send", NoPtr, Junk)
    BY <1>1 DEF Request, MemInfo
  <2> DEFINE c == [op |-> op, step |-> "send", ptr |-> NoPtr, val |-> Junk, slot |-> 0, handle |-> 0]
  <2>2. c \in Call /\ call' = [call EXCEPT ![t] = c] /\ call[t] = Idle
    BY <2>1
  <2>3. 0 <= handles
    BY DEF FeederShape
  <2> QED BY <2>2, <2>3
<1>2. CASE Copy(t)
  <2>1. PICK p \in Ptrs, op \in {"h2d", "memset", "d2h"} :
          held[p] = t /\ \E v \in Datum : Starts(t, op, "send", p, v)
    BY <1>2 DEF Copy
  <2>2. PICK v \in Datum : Starts(t, op, "send", p, v)
    BY <2>1
  <2>3. p \in Mapped /\ p # NoPtr
    BY <2>1, FabricAssumption
  <2>4. SlotOf(p) \in Slots /\ SlotOf(p) \in Nat
    BY <2>3, SlotOfMapped, FabricAssumption DEF Slots
  <2> DEFINE c == [op |-> op, step |-> "send", ptr |-> p, val |-> v, slot |-> SlotOf(p),
                   handle |-> table[SlotOf(p)].handle]
  <2>5. c \in Call /\ call' = [call EXCEPT ![t] = c] /\ call[t] = Idle
    BY <2>2, <2>3, <2>4
  <2>6. c.handle <= handles
    BY <2>4
  <2> QED BY <2>5, <2>6
<1> QED BY <1>1, <1>2

LEMMA LaunchEffect ==
  ASSUME IInv, ~Careless, NEW t \in Threads, Launch(t)
  PROVE  \E p \in Mapped, c \in Call :
           /\ held[p] # NoOne /\ call[t] = Idle /\ call' = [call EXCEPT ![t] = c]
           /\ c.op = "exec" /\ c.step = "send" /\ c.ptr = p /\ c.slot = SlotOf(p) /\ c.handle <= handles
           /\ table' = [table EXCEPT ![SlotOf(p)].refs = @ + 1]
<1> USE DEF IInv, HostShape, SlotsOK, Starts, Call, Slot, Ops, Steps, Datum
<1>1. PICK p \in Mapped : /\ held[p] # NoOne /\ Starts(t, "exec", "send", p, Junk)
                          /\ table' = [table EXCEPT ![SlotOf(p)].refs = @ + 1]
  BY DEF Launch
<1>2. p # NoPtr /\ p \in Ptrs /\ SlotOf(p) \in Slots /\ SlotOf(p) \in Nat
  BY SlotOfMapped, FabricAssumption DEF Slots
<1> DEFINE c == [op |-> "exec", step |-> "send", ptr |-> p, val |-> Junk, slot |-> SlotOf(p),
                 handle |-> table[SlotOf(p)].handle]
<1>3. c \in Call /\ call' = [call EXCEPT ![t] = c] /\ call[t] = Idle
  BY <1>1, <1>2
<1>4. c.handle <= handles
  BY <1>2
<1> QED BY <1>1, <1>3, <1>4

LEMMA FreeEffect ==
  ASSUME IInv, NEW t \in Threads, Free(t)
  PROVE  \E p \in Mapped, c \in Call :
           /\ held[p] = t /\ call[t] = Idle /\ call' = [call EXCEPT ![t] = c]
           /\ c.op = "free" /\ c.step = "spin" /\ c.ptr = p /\ c.slot = SlotOf(p)
           /\ c.handle = table[SlotOf(p)].handle /\ c.handle <= handles
           /\ held' = [held EXCEPT ![p] = NoOne]
<1> USE DEF IInv, HostShape, SlotsOK, Starts, Call, Slot, Ops, Steps, Datum
<1>1. PICK p \in Ptrs : /\ held[p] = t /\ Starts(t, "free", "spin", p, Junk)
                        /\ held' = [held EXCEPT ![p] = NoOne]
  BY DEF Free
<1>2. p \in Mapped /\ p # NoPtr
  BY <1>1, FabricAssumption
<1>3. SlotOf(p) \in Slots /\ SlotOf(p) \in Nat
  BY <1>2, SlotOfMapped, FabricAssumption DEF Slots
<1> DEFINE c == [op |-> "free", step |-> "spin", ptr |-> p, val |-> Junk, slot |-> SlotOf(p),
                 handle |-> table[SlotOf(p)].handle]
<1>4. c \in Call /\ call' = [call EXCEPT ![t] = c] /\ call[t] = Idle
  BY <1>1, <1>2, <1>3
<1>5. c.handle <= handles
  BY <1>3
<1> QED BY <1>1, <1>2, <1>4, <1>5

\* A call that its connection has failed is over, or is tried again, or has its pin left to let go.
LEMMA GivenUpIs ==
  ASSUME NEW c \in Call
  PROVE  /\ GivenUp(c) \in Call /\ GivenUp(c).step \in {"idle", "send", "release"}
         /\ GivenUp(c).handle \in {0, c.handle}
         /\ c.op = "exec" => GivenUp(c) = [c EXCEPT !.step = "release"]
         /\ c.op # "exec" => GivenUp(c).op \in {"idle", "mem_info"} /\ GivenUp(c).step # "release"
         /\ c.op # "mem_info" => GivenUp(c).op # "mem_info"
BY IdleIsCall DEF GivenUp, At, Idle, Call, Ops, Steps

\* What a response makes of the call.
Heard(c, r) ==
  CASE c.op \in Mallocs /\ r.ok -> [c EXCEPT !.step = "insert", !.handle = r.handle]
    [] c.op = "exec" -> [c EXCEPT !.step = "release"]
    [] OTHER -> Idle

LEMMA HeardIs ==
  ASSUME NEW c \in Call, NEW r \in Answer
  PROVE  /\ Heard(c, r) \in Call /\ Heard(c, r).step \in {"idle", "insert", "release"}
         /\ Heard(c, r).step = "insert" <=> c.op \in Mallocs /\ r.ok
         /\ Heard(c, r).step = "insert" => Heard(c, r).handle = r.handle /\ Heard(c, r).op = c.op
         /\ Heard(c, r).step = "release" => c.op = "exec" /\ Heard(c, r) = [c EXCEPT !.step = "release"]
         /\ Heard(c, r).step = "idle" => Heard(c, r) = Idle /\ c.op # "exec"
BY IdleIsCall, ZenonT(40) DEF Heard, Idle, Call, Answer, Ops, Steps, Mallocs

LEMMA RecvEffect ==
  ASSUME IInv, NEW t \in Everyone, Recv(t)
  PROVE  /\ link # 0 /\ lock = t /\ lock' = NoOne /\ resp[link] # <<>> /\ resp[link][1] \in Answer
         /\ call' = [call EXCEPT ![t] = Heard(call[t], resp[link][1])]
         /\ resp' = [resp EXCEPT ![link] = Tail(@)]
         /\ UNCHANGED <<link, table, net, req, feeder, held, orphans>>
<1>1. lock = t /\ lock # NoOne /\ link \in Conns
  BY FabricAssumption DEF Recv, IInv, HostShape, Everyone
<1>2. resp[link] \in Seq(Answer) /\ resp[link] # <<>>
  BY <1>1 DEF Recv, IInv, WireShape
<1>3. Head(resp[link]) = resp[link][1] /\ resp[link][1] \in Answer
  BY <1>2, HeadTailProperties
<1>4. call' = [call EXCEPT ![t] = Heard(call[t], resp[link][1])]
  BY <1>3 DEF Recv, Heard, At, Mallocs
<1> QED BY <1>1, <1>2, <1>3, <1>4 DEF Recv, IInv, HostShape

LEMMA FailedEffect ==
  ASSUME IInv, NEW t \in Everyone, Failed(t)
  PROVE  /\ call' = [call EXCEPT ![t] = GivenUp(call[t])]
         /\ \/ link' = link /\ net' = net
            \/ link' = 0 /\ link \in Conns /\ net' = [net EXCEPT ![link] = "cut"]
BY DEF Failed, IInv, HostShape

LEMMA InsertEffect ==
  ASSUME IInv, NEW t \in Threads, Insert(t)
  PROVE  /\ call[t].step = "insert" /\ call[t].op \in Mallocs
         /\ UNCHANGED <<link, lock, net, req, resp, clients, block, group, handles>>
         /\ \/ /\ call' = [call EXCEPT ![t].op = "undo", ![t].step = "send"]
               /\ UNCHANGED <<table, held, orphans>>
            \/ /\ orphans' = orphans \cup ({call[t].handle} \cap DOMAIN block)
               /\ call' = [call EXCEPT ![t] = Idle]
               /\ UNCHANGED <<table, held>>
            \/ \E s \in Slots, p \in Ptrs \ Mapped :
                 /\ table[s].ptr = NoPtr
                 /\ table' = [table EXCEPT ![s].ptr = p, ![s].handle = call[t].handle]
                 /\ held' = [held EXCEPT ![p] = t]
                 /\ call' = [call EXCEPT ![t] = Idle]
                 /\ UNCHANGED orphans
<1>1. call[t].step = "insert" /\ call[t].op \in Mallocs
  BY DEF Insert, IInv, Calls, CallOK, Proper, Everyone
<1>2. UNCHANGED <<link, lock, net, req, resp, clients, block, group, handles>>
  BY DEF Insert, wire, feeder
<1> QED BY <1>1, <1>2 DEF Insert, history

LEMMA OpenedEffect ==
  ASSUME IInv, NEW first \in Seq(Msg), Opened(first)
  PROVE  /\ link' = Len(net) + 1 /\ Conns' = 1 .. Len(net) + 1 /\ link' \in Conns' \ Conns /\ Conns \subseteq Conns'
         /\ net' \in Seq({"up", "cut"}) /\ Len(net') = Len(net) + 1
         /\ req' \in [Conns' -> Seq(Msg)] /\ resp' \in [Conns' -> Seq(Answer)]
         /\ net'[link'] = "up" /\ req'[link'] = first /\ resp'[link'] = <<>>
         /\ \A k \in Conns : net'[k] = net[k] /\ req'[k] = req[k] /\ resp'[k] = resp[k]
         /\ clients' = clients \cup {link'} /\ UNCHANGED <<block, group, handles>>
<1> USE DEF IInv
<1>1. Conns = 1 .. Len(net) /\ Len(net) \in Nat
  BY ConnsAre
<1>2. /\ net' \in Seq({"up", "cut"}) /\ Len(net') = Len(net) + 1
      /\ net'[Len(net) + 1] = "up" /\ \A k \in 1 .. Len(net) : net'[k] = net[k]
  BY AppendProperties DEF Opened, WireShape
<1>3. Conns' = 1 .. Len(net) + 1
  BY <1>1, <1>2, LenProperties DEF Conns
<1>4. req' \in [1 .. Len(net) + 1 -> Seq(Msg)] /\ req'[Len(net) + 1] = first
      /\ \A k \in 1 .. Len(net) : req'[k] = req[k]
  <2>1. req \in [1 .. Len(net) -> Seq(Msg)] /\ req' = Append(req, first)
    BY <1>1 DEF Opened, WireShape
  <2> DEFINE S == Seq(Msg)
             n == Len(net)
  <2>2. n \in Nat /\ req \in [1 .. n -> S] /\ first \in S
    BY <1>1, <2>1
  <2> HIDE DEF S, n
  <2>3. Append(req, first) \in [1 .. n + 1 -> S]
    BY <2>2, AppendIn
  <2>4. \A i \in 1 .. n + 1 : Append(req, first)[i] = IF i = n + 1 THEN first ELSE req[i]
    BY <2>2, AppendAt
  <2>5. n + 1 \in 1 .. n + 1 /\ \A i \in 1 .. n : i \in 1 .. n + 1 /\ i # n + 1
    BY <2>2
  <2> QED BY <2>1, <2>3, <2>4, <2>5 DEF S, n
<1> DEFINE none == <<>>
<1>5. none \in Seq(Answer)
  OBVIOUS
<1> HIDE DEF none
<1>6. resp' \in [1 .. Len(net) + 1 -> Seq(Answer)] /\ resp'[Len(net) + 1] = none
      /\ \A k \in 1 .. Len(net) : resp'[k] = resp[k]
  <2>1. resp \in [1 .. Len(net) -> Seq(Answer)] /\ resp' = Append(resp, none)
    BY <1>1 DEF Opened, WireShape, none
  <2> DEFINE S == Seq(Answer)
             n == Len(net)
  <2>2. n \in Nat /\ resp \in [1 .. n -> S] /\ none \in S
    BY <1>1, <1>5, <2>1
  <2> HIDE DEF S, n
  <2>3. Append(resp, none) \in [1 .. n + 1 -> S]
    BY <2>2, AppendIn
  <2>4. \A i \in 1 .. n + 1 : Append(resp, none)[i] = IF i = n + 1 THEN none ELSE resp[i]
    BY <2>2, AppendAt
  <2>5. n + 1 \in 1 .. n + 1 /\ \A i \in 1 .. n : i \in 1 .. n + 1 /\ i # n + 1
    BY <2>2
  <2> QED BY <2>1, <2>3, <2>4, <2>5 DEF S, n
<1>7. link' = Len(net) + 1 /\ link' \in Conns' \ Conns /\ Conns \subseteq Conns'
  BY <1>1, <1>3 DEF Opened
<1> QED BY <1>1, <1>2, <1>3, <1>4, <1>6, <1>7 DEF Opened, none

LEMMA ServedEffect ==
  ASSUME IInv, NEW k \in clients, req[k] # <<>>, NEW ok \in BOOLEAN, NEW h \in Nat, NEW v \in Datum,
         Served(k, Next1(k), ok, h, v)
  PROVE  /\ k \in Conns /\ req[k] \in Seq(Msg) /\ Next1(k) \in Msg /\ Next1(k) = req[k][1]
         /\ req' = [req EXCEPT ![k] = Tail(@)] /\ req' \in [Conns -> Seq(Msg)]
         /\ resp' \in [Conns -> Seq(Answer)]
         /\ \/ resp' = resp /\ (net[k] = "cut" \/ ~Answered(Next1(k)))
            \/ /\ net[k] = "up" /\ Answered(Next1(k))
               /\ [of |-> Next1(k).of, ok |-> ok, handle |-> h, val |-> v] \in Answer
               /\ resp' = [resp EXCEPT ![k] =
                    Append(@, [of |-> Next1(k).of, ok |-> ok, handle |-> h, val |-> v])]
         /\ UNCHANGED <<link, lock, table, call, net, clients, held, last, lost, orphans>>
<1> USE DEF IInv, WireShape
<1>1. k \in Conns /\ req[k] \in Seq(Msg) /\ resp[k] \in Seq(Answer)
  BY DEF FeederShape
<1>2. Next1(k) = req[k][1] /\ Next1(k) \in Msg /\ Tail(req[k]) \in Seq(Msg)
  BY <1>1, HeadTailProperties DEF Next1
<1> DEFINE a == [of |-> Next1(k).of, ok |-> ok, handle |-> h, val |-> v]
<1>3. a \in Answer
  BY <1>2 DEF Answer, Msg
<1>4. Append(resp[k], a) \in Seq(Answer)
  BY <1>1, <1>3, AppendProperties
<1>5. req' = [req EXCEPT ![k] = Tail(@)] /\ req' \in [Conns -> Seq(Msg)]
  BY <1>2 DEF Served
<1>6. resp' = IF net[k] = "up" /\ Answered(Next1(k)) THEN [resp EXCEPT ![k] = Append(@, a)] ELSE resp
  BY DEF Served
<1>7. net[k] \in {"up", "cut"}
  BY <1>1 DEF Conns
<1>8. UNCHANGED <<link, lock, table, call, net, clients, held, last, lost, orphans>>
  BY DEF Served, host, history
<1> QED BY <1>1, <1>2, <1>3, <1>4, <1>5, <1>6, <1>7, <1>8

\* The blocks that a served message leaves: the same, one more, or one less.
SameBlocks(k, h) ==
  /\ h = 0 /\ UNCHANGED <<group, handles>>
  /\ DOMAIN block' = DOMAIN block
  /\ \A x \in DOMAIN block : /\ block'[x] = [owner |-> block'[x].owner, data |-> block'[x].data]
                             /\ block'[x].owner = block[x].owner /\ block'[x].data \in Datum
  /\ Next1(k).op = "free" => Next1(k).handle \notin DOMAIN block

MoreBlocks(k, ok, h) ==
  /\ Next1(k).op = "malloc" /\ ok /\ h = handles + 1 /\ handles' = h
  /\ block' = Put(block, h, [owner |-> k, data |-> Junk])
  /\ group' = Put(group, k, IF k \in DOMAIN group THEN group[k] + 1 ELSE 1)

FewerBlocks(k, h) ==
  /\ Next1(k).op = "free" /\ h = 0 /\ UNCHANGED handles
  /\ Next1(k).handle \in DOMAIN block
  /\ block' = Drop(block, {Next1(k).handle})
  /\ group' = [group EXCEPT ![block[Next1(k).handle].owner] = @ - 1]

LEMMA ServeEffect ==
  ASSUME IInv, NEW k \in Conns, Serve(k)
  PROVE  /\ k \in clients /\ req[k] # <<>>
         /\ \E ok \in BOOLEAN, h \in Nat, v \in Datum :
              /\ Served(k, Next1(k), ok, h, v)
              /\ SameBlocks(k, h) \/ MoreBlocks(k, ok, h) \/ FewerBlocks(k, h)
<1> USE DEF IInv, Has
<1>1. k \in clients /\ req[k] # <<>>
  BY DEF Serve, CudaMalloc, CudaWrite, CudaRead, CudaFree, Other
<1>2. req[k] \in Seq(Msg) /\ Next1(k) \in Msg
  <2>1. req[k] \in Seq(Msg)
    BY <1>1 DEF WireShape, FeederShape
  <2> QED BY <1>1, <2>1, HeadTailProperties DEF Next1
<1>3. /\ \A x \in DOMAIN block : /\ block[x] = [owner |-> block[x].owner, data |-> block[x].data]
                                 /\ block[x].data \in Datum
      /\ 0 \in Nat /\ Junk \in Datum /\ handles \in Nat /\ handles + 1 \in Nat
  BY DEF FeederShape, Datum
<1>4. CASE CudaMalloc(k)
  <2>1. CASE /\ handles' = handles + 1
             /\ block' = Put(block, Handle, [owner |-> k, data |-> Junk])
             /\ group' = Put(group, k, IF k \in DOMAIN group THEN group[k] + 1 ELSE 1)
             /\ Served(k, Next1(k), TRUE, Handle, Junk)
    <3>1. MoreBlocks(k, TRUE, handles + 1) /\ Served(k, Next1(k), TRUE, handles + 1, Junk)
      BY <1>4, <2>1 DEF MoreBlocks, Handle, CudaMalloc
    <3> QED BY <1>1, <1>3, <3>1
  <2>2. CASE Served(k, Next1(k), FALSE, 0, Junk) /\ UNCHANGED <<block, group, handles>>
    <3>1. SameBlocks(k, 0)
      BY <1>3, <1>4, <2>2 DEF SameBlocks, CudaMalloc
    <3> QED BY <1>1, <1>3, <2>2, <3>1
  <2> QED BY <1>4, <2>1, <2>2 DEF CudaMalloc
<1>5. CASE CudaWrite(k)
  <2>1. Next1(k).op # "free" /\ Next1(k).val \in Datum /\ UNCHANGED <<group, handles>>
    BY <1>2, <1>5 DEF CudaWrite, Msg
  <2>2. CASE /\ Next1(k).handle \in DOMAIN block
             /\ block' = [block EXCEPT ![Next1(k).handle].data = Next1(k).val]
             /\ Served(k, Next1(k), TRUE, 0, Junk)
    <3>1. SameBlocks(k, 0)
      BY <1>3, <2>1, <2>2 DEF SameBlocks
    <3> QED BY <1>1, <1>3, <2>2, <3>1
  <2>3. CASE Served(k, Next1(k), FALSE, 0, Junk) /\ UNCHANGED block
    <3>1. SameBlocks(k, 0)
      BY <1>3, <2>1, <2>3 DEF SameBlocks
    <3> QED BY <1>1, <1>3, <2>3, <3>1
  <2> QED BY <1>5, <2>2, <2>3 DEF CudaWrite
<1>6. CASE CudaRead(k)
  <2> DEFINE known == Next1(k).handle \in DOMAIN block
             v == IF known THEN block[Next1(k).handle].data ELSE Junk
  <2>1. Served(k, Next1(k), known, 0, v) /\ v \in Datum /\ known \in BOOLEAN
    BY <1>3, <1>6 DEF CudaRead
  <2>2. SameBlocks(k, 0)
    BY <1>3, <1>6 DEF SameBlocks, CudaRead
  <2> QED BY <1>1, <1>3, <2>1, <2>2
<1>7. CASE CudaFree(k)
  <2>1. CASE Next1(k).handle \in DOMAIN block
    <3>1. FewerBlocks(k, 0) /\ Served(k, Next1(k), TRUE, 0, Junk)
      BY <1>7, <2>1 DEF FewerBlocks, CudaFree
    <3> QED BY <1>1, <1>3, <3>1
  <2>2. CASE Next1(k).handle \notin DOMAIN block
    <3>1. SameBlocks(k, 0) /\ Served(k, Next1(k), FALSE, 0, Junk)
      BY <1>3, <1>7, <2>2 DEF SameBlocks, CudaFree
    <3> QED BY <1>1, <1>3, <3>1
  <2> QED BY <2>1, <2>2
<1>8. CASE Other(k)
  <2>1. SameBlocks(k, 0) /\ Served(k, Next1(k), TRUE, 0, Junk)
    BY <1>3, <1>8 DEF SameBlocks, Other
  <2> QED BY <1>1, <1>3, <2>1
<1> QED BY <1>4, <1>5, <1>6, <1>7, <1>8 DEF Serve

-----------------------------------------------------------------------------
(* The feeder. *)

LEMMA MessageIs ==
  ASSUME IInv, NEW t \in Threads
  PROVE  /\ Message(t) \in Msg /\ <<Message(t)>> \in Seq(Msg)
         /\ Message(t).of = t /\ Message(t).handle = call[t].handle
         /\ Message(t).op = "note" <=> call[t].op = "note"
         /\ Message(t).op = "malloc" <=> call[t].op \in Mallocs
         /\ call[t].op \in Frees => Message(t).op = "free"
<1>1. call[t] \in Call /\ t \in Everyone
  BY DEF IInv, HostShape, Everyone
<1>2. Message(t) \in Msg
  BY <1>1 DEF Message, Msg, Call, Ops
<1>3. <<Message(t)>> \in Seq(Msg)
  BY <1>2
<1> QED BY <1>1, <1>2, <1>3 DEF Message, Call, Ops, Mallocs, Frees

LEMMA FeederFrame ==
  ASSUME IInv, [Next]_fabric
  PROVE  \/ UNCHANGED feeder /\ Conns' = Conns
         \/ \E first \in Seq(Msg) : Opened(first)
         \/ \E k \in Conns : Serve(k) \/ ClientCleanup(k)
         \/ Restart
<1>1. ASSUME NEW t \in Threads, Begin(t) \/ Goes(t) \/ Send(t)
      PROVE  UNCHANGED feeder /\ Conns' = Conns
  BY <1>1 DEF Begin, Goes, Request, MemInfo, Copy, Launch, Free, Spun, Unuse, Insert, Release, Send,
              wire, Conns
<1>2. ASSUME NEW t \in Everyone, SendFails(t) \/ RecvFails(t)
      PROVE  UNCHANGED feeder /\ Conns' = Conns
  <2>1. UNCHANGED feeder /\ Failed(t)
    BY <1>2 DEF SendFails, RecvFails
  <2> QED BY <2>1, FailedEffect DEF Conns
<1>3. ASSUME NEW t \in Everyone, Recv(t)
      PROVE  UNCHANGED feeder /\ Conns' = Conns
  BY <1>3 DEF Recv, Conns
<1>4. ASSUME NEW t \in Threads, MemInfoConnects(t)
      PROVE  (UNCHANGED feeder /\ Conns' = Conns) \/ \E first \in Seq(Msg) : Opened(first)
  BY <1>4, MessageIs DEF MemInfoConnects, wire, Conns
<1>5. CASE Reconnect
  <2>1. <<>> \in Seq(Msg)
    OBVIOUS
  <2> QED BY <1>5, <2>1 DEF Reconnect
<1>6. CASE Beat
  BY <1>6 DEF Beat, Conns
<1>7. ASSUME NEW k \in Conns, Cut(k)
      PROVE  UNCHANGED feeder /\ Conns' = Conns
  BY <1>7 DEF Cut, Conns
<1>8. CASE UNCHANGED fabric
  BY <1>8 DEF fabric, wire, Conns
<1>9. Threads \subseteq Everyone
  BY DEF Everyone
<1> QED BY <1>1, <1>2, <1>3, <1>4, <1>5, <1>6, <1>7, <1>8, <1>9 DEF Next, Locked, Ends

LEMMA StepFeeder == ASSUME IInv, [Next]_fabric PROVE FeederShape'
<1> USE DEF IInv, FeederShape
<1>1. CASE UNCHANGED feeder /\ Conns' = Conns
  BY <1>1 DEF feeder
<1>2. ASSUME NEW first \in Seq(Msg), Opened(first)
      PROVE  FeederShape'
  BY <1>2, OpenedEffect, ZenonT(40)
<1>3. ASSUME NEW k \in Conns, Serve(k)
      PROVE  FeederShape'
  <2>1. k \in clients /\ req[k] # <<>>
    BY <1>3, ServeEffect
  <2>2. PICK ok \in BOOLEAN, h \in Nat, v \in Datum :
          /\ Served(k, Next1(k), ok, h, v)
          /\ SameBlocks(k, h) \/ MoreBlocks(k, ok, h) \/ FewerBlocks(k, h)
    BY <1>3, ServeEffect
  <2>3. net' = net /\ clients' = clients /\ Conns' = Conns
    BY <2>1, <2>2, ServedEffect DEF Conns
  <2>4. CASE SameBlocks(k, h)
    BY <2>3, <2>4 DEF SameBlocks
  <2>5. CASE MoreBlocks(k, ok, h)
    <3> DEFINE new == [owner |-> k, data |-> Junk]
               n == IF k \in DOMAIN group THEN group[k] + 1 ELSE 1
    <3>1. /\ DOMAIN block' = DOMAIN block \cup {h} /\ block'[h] = new
          /\ \A x \in DOMAIN block \ {h} : block'[x] = block[x]
      BY <2>5 DEF MoreBlocks, Put
    <3>2. /\ DOMAIN group' = DOMAIN group \cup {k} /\ group'[k] = n /\ n \in Int
          /\ \A x \in DOMAIN group \ {k} : group'[x] = group[x]
      BY <2>5 DEF MoreBlocks, Put
    <3>3. IsFiniteSet(DOMAIN block')
      BY <3>1, FS_AddElement
    <3>4. h = handles + 1 /\ handles' = h
      BY <2>5 DEF MoreBlocks
    <3>5. DOMAIN block' \subseteq 1 .. handles'
      BY <3>1, <3>4
    <3>6. \A x \in DOMAIN block' : /\ block'[x].owner \in clients /\ block'[x].data \in Datum
                                   /\ block'[x] = [owner |-> block'[x].owner, data |-> block'[x].data]
      BY <2>1, <3>1 DEF Datum
    <3> QED BY <2>3, <3>2, <3>3, <3>4, <3>5, <3>6
  <2>6. CASE FewerBlocks(k, h)
    <3>1. /\ DOMAIN block' = DOMAIN block \ {Next1(k).handle}
          /\ \A x \in DOMAIN block' : block'[x] = block[x]
      BY <2>6 DEF FewerBlocks, Drop
    <3>2. DOMAIN group' = DOMAIN group /\ (\A x \in DOMAIN group : group'[x] \in Int) /\ handles' = handles
      BY <2>6 DEF FewerBlocks
    <3>3. IsFiniteSet(DOMAIN block')
      BY <3>1, FS_Subset
    <3> QED BY <2>3, <3>1, <3>2, <3>3
  <2> QED BY <2>2, <2>4, <2>5, <2>6
<1>4. ASSUME NEW k \in Conns, ClientCleanup(k)
      PROVE  FeederShape'
  <2>1. /\ DOMAIN block' = DOMAIN block \ Swept(k) /\ \A x \in DOMAIN block' : block'[x] = block[x]
        /\ DOMAIN group' = DOMAIN group \ {k} /\ \A x \in DOMAIN group' : group'[x] = group[x]
    BY <1>4 DEF ClientCleanup, Drop
  <2>2. clients' = clients \ {k} /\ handles' = handles /\ Conns' = Conns
    BY <1>4 DEF ClientCleanup, Conns
  <2>3. IsFiniteSet(DOMAIN block')
    BY <2>1, FS_Subset
  <2> QED BY <2>1, <2>2, <2>3 DEF Swept
<1>5. CASE Restart
  <2>1. DOMAIN block' = {} /\ DOMAIN group' = {} /\ clients' = {} /\ handles' = handles
    BY <1>5 DEF Restart
  <2> QED BY <2>1, FS_EmptySet
<1> QED BY <1>1, <1>2, <1>3, <1>4, <1>5, FeederFrame

-----------------------------------------------------------------------------
(* The shapes of the wire and of the host. *)

LEMMA StepWireShape == ASSUME IInv, [Next]_fabric PROVE WireShape'
<1> USE DEF IInv, WireShape
<1>1. CASE net' = net /\ req' = req /\ resp' = resp
  BY <1>1 DEF Conns
<1>2. ASSUME NEW t \in Threads, Send(t)
      PROVE  WireShape'
  <2>1. link \in Conns /\ Message(t) \in Msg
    BY <1>2, MessageIs DEF Send, Alive, HostShape
  <2>2. Append(req[link], Message(t)) \in Seq(Msg)
    BY <2>1, AppendProperties
  <2> QED BY <1>2, <2>1, <2>2 DEF Send, Conns
<1>3. ASSUME NEW t \in Everyone, Failed(t), req' = req, resp' = resp
      PROVE  WireShape'
  <2>1. net' = net \/ (link \in Conns /\ net' = [net EXCEPT ![link] = "cut"])
    BY <1>3, FailedEffect
  <2>2. net' \in Seq({"up", "cut"}) /\ Conns' = Conns
    <3>1. CASE net' = net
      BY <3>1 DEF Conns
    <3>2. CASE link \in Conns /\ net' = [net EXCEPT ![link] = "cut"]
      BY <3>2, ConnsAre, ExceptSeq DEF Conns
    <3> QED BY <2>1, <3>1, <3>2
  <2> QED BY <1>3, <2>2
<1>4. ASSUME NEW t \in Everyone, Recv(t)
      PROVE  WireShape'
  <2>1. link # 0 /\ link \in Conns /\ resp[link] # <<>>
    BY <1>4, RecvEffect DEF HostShape
  <2>2. Tail(resp[link]) \in Seq(Answer)
    BY <2>1, HeadTailProperties
  <2> QED BY <1>4, <2>1, <2>2, RecvEffect DEF Conns
<1>5. ASSUME NEW first \in Seq(Msg), Opened(first)
      PROVE  WireShape'
  BY <1>5, OpenedEffect
<1>6. CASE Beat
  <2>1. CASE req' = req
    BY <1>6, <2>1 DEF Beat, Conns
  <2>2. CASE req' = [req EXCEPT ![link] = Append(@, [op |-> "beat", of |-> Hb, handle |-> 0, val |-> Junk])]
    <3> DEFINE m == [op |-> "beat", of |-> Hb, handle |-> 0, val |-> Junk]
    <3>1. link \in Conns /\ m \in Msg
      BY <1>6 DEF Beat, HostShape, Msg, Ops, Datum, Everyone
    <3> HIDE DEF m
    <3>2. Append(req[link], m) \in Seq(Msg)
      BY <3>1, AppendProperties
    <3>3. req' = [req EXCEPT ![link] = Append(@, m)] /\ resp' = resp /\ net' = net
      BY <1>6, <2>2 DEF Beat, m, HostShape, Conns
    <3> QED BY <3>1, <3>2, <3>3 DEF Conns
  <2> QED BY <1>6, <2>1, <2>2 DEF Beat
<1>7. ASSUME NEW k \in Conns, Serve(k)
      PROVE  WireShape'
  <2>1. k \in clients /\ req[k] # <<>>
    BY <1>7, ServeEffect
  <2>2. PICK ok \in BOOLEAN, h \in Nat, v \in Datum : Served(k, Next1(k), ok, h, v)
    BY <1>7, ServeEffect
  <2> QED BY <2>1, <2>2, ServedEffect DEF Conns
<1>8. ASSUME NEW k \in Conns, ClientCleanup(k) \/ Cut(k)
      PROVE  WireShape'
  <2>1. net' = [net EXCEPT ![k] = "cut"] /\ <<>> \in Seq(Msg) /\ <<>> \in Seq(Answer)
    BY <1>8 DEF ClientCleanup, Cut
  <2>2. net' \in Seq({"up", "cut"}) /\ Conns' = Conns
    BY <2>1, ConnsAre, ExceptSeq DEF Conns
  <2>3. /\ req' = req \/ req' = [req EXCEPT ![k] = <<>>]
        /\ resp' = resp \/ resp' = [resp EXCEPT ![k] = <<>>]
    BY <1>8 DEF ClientCleanup, Cut
  <2> QED BY <2>1, <2>2, <2>3
<1>9. CASE Restart
  <2>1. net' = [k \in Conns |-> "cut"] /\ req' = [k \in Conns |-> <<>>] /\ resp' = resp
    BY <1>9 DEF Restart
  <2>2. net' \in Seq({"up", "cut"}) /\ Conns' = Conns
    BY <2>1, ConnsAre DEF Conns
  <2>3. <<>> \in Seq(Msg)
    OBVIOUS
  <2> QED BY <2>1, <2>2, <2>3
<1>10. ASSUME NEW t \in Threads, Begin(t) \/ Goes(t)
       PROVE  net' = net /\ req' = req /\ resp' = resp
  BY <1>10 DEF Begin, Goes, Request, MemInfo, Copy, Launch, Free, Spun, Unuse, Insert, Release, wire
<1>11. ASSUME NEW t \in Threads, MemInfoConnects(t)
       PROVE  WireShape'
  BY <1>1, <1>5, <1>11, MessageIs DEF MemInfoConnects, wire
<1>12. ASSUME NEW t \in Everyone, SendFails(t) \/ RecvFails(t)
       PROVE  WireShape'
  BY <1>3, <1>12 DEF SendFails, RecvFails
<1>13. CASE Reconnect
  <2>1. <<>> \in Seq(Msg)
    OBVIOUS
  <2> QED BY <1>5, <1>13, <2>1 DEF Reconnect
<1>14. CASE UNCHANGED fabric
  BY <1>1, <1>14 DEF fabric, wire
<1>15. Threads \subseteq Everyone
  BY DEF Everyone
<1> QED
  BY <1>1, <1>2, <1>4, <1>6, <1>7, <1>8, <1>9, <1>10, <1>11, <1>12, <1>13, <1>14, <1>15
  DEF Next, Locked, Ends

LEMMA StepHost == ASSUME ~Careless, IInv, [Next]_fabric PROVE HostShape'
<1> USE DEF IInv, HostShape
<1>1. ASSUME UNCHANGED <<link, lock, table, held>>, Conns' = Conns, NEW t \in Everyone, NEW c \in Call,
             call' = [call EXCEPT ![t] = c]
      PROVE  HostShape'
  BY <1>1
<1>2. ASSUME NEW t \in Threads, Request(t) \/ MemInfo(t) \/ Copy(t)
      PROVE  HostShape'
  <2>1. UNCHANGED <<link, lock, table, held>> /\ Conns' = Conns
    BY <1>2 DEF Request, MemInfo, Copy, wire, history, Conns
  <2> QED BY <1>1, <1>2, <2>1, BeginEffect DEF Everyone
<1>3. ASSUME NEW t \in Threads, Launch(t)
      PROVE  HostShape'
  <2>1. PICK p \in Mapped, c \in Call : /\ call' = [call EXCEPT ![t] = c]
                                        /\ table' = [table EXCEPT ![SlotOf(p)].refs = @ + 1]
    BY <1>3, LaunchEffect
  <2>2. SlotOf(p) \in Slots /\ table[SlotOf(p)] \in Slot
    BY SlotOfMapped
  <2>3. [table[SlotOf(p)] EXCEPT !.refs = @ + 1] \in Slot
    BY <2>2 DEF Slot
  <2>4. table' \in [Slots -> Slot]
    BY <2>1, <2>2, <2>3
  <2>5. call' \in [Everyone -> Call]
    BY <2>1
  <2> QED BY <1>3, <2>4, <2>5 DEF Launch, wire, history, Conns
<1>4. ASSUME NEW t \in Threads, Free(t)
      PROVE  HostShape'
  <2>1. PICK p \in Mapped, c \in Call : /\ call' = [call EXCEPT ![t] = c]
                                        /\ held' = [held EXCEPT ![p] = NoOne]
    BY <1>4, FreeEffect
  <2> QED BY <1>4, <2>1 DEF Free, wire, Conns
<1>5. ASSUME NEW t \in Threads, Spun(t)
      PROVE  HostShape'
  BY <1>5 DEF Spun, wire, history, Conns, Call, Steps, Everyone
<1>6. ASSUME NEW t \in Threads, Unuse(t)
      PROVE  HostShape'
  <2>1. call' \in [Everyone -> Call]
    BY <1>6, IdleIsCall DEF Unuse, At, Call, Steps, Everyone
  <2>2. table' \in [Slots -> Slot]
    BY <1>6 DEF Unuse, Slot
  <2> QED BY <1>6, <2>1, <2>2 DEF Unuse, wire, history, Conns
<1>7. ASSUME NEW t \in Threads, Insert(t)
      PROVE  HostShape'
  <2>1. t \in Everyone /\ call[t] \in Call /\ UNCHANGED <<link, lock, net>>
    BY <1>7, InsertEffect DEF Everyone
  <2>2. [call[t] EXCEPT !.op = "undo", !.step = "send"] \in Call
    BY <2>1 DEF Call, Ops, Steps
  <2>3. CASE call' = [call EXCEPT ![t].op = "undo", ![t].step = "send"] /\ UNCHANGED <<table, held>>
    BY <2>1, <2>2, <2>3 DEF Conns
  <2>4. CASE call' = [call EXCEPT ![t] = Idle] /\ UNCHANGED <<table, held>>
    BY <2>1, <2>4, IdleIsCall DEF Conns
  <2>5. ASSUME NEW s \in Slots, NEW p \in Ptrs,
               table' = [table EXCEPT ![s].ptr = p, ![s].handle = call[t].handle],
               held' = [held EXCEPT ![p] = t], call' = [call EXCEPT ![t] = Idle]
        PROVE  HostShape'
    <3>1. table' \in [Slots -> Slot]
      BY <2>1, <2>5 DEF Slot, Call
    <3> QED BY <2>1, <2>5, <3>1, IdleIsCall DEF Conns
  <2> QED BY <1>7, <2>3, <2>4, <2>5, InsertEffect
<1>8. ASSUME NEW t \in Threads, Release(t)
      PROVE  HostShape'
  <2>1. CASE call[t].ptr \in Mapped
    <3>1. SlotOf(call[t].ptr) \in Slots /\ table[SlotOf(call[t].ptr)] \in Slot
      BY <2>1, SlotOfMapped
    <3>2. [table[SlotOf(call[t].ptr)] EXCEPT !.refs = @ - 1] \in Slot
      BY <3>1 DEF Slot
    <3>3. table' \in [Slots -> Slot]
      BY <1>8, <2>1, <3>1, <3>2 DEF Release
    <3> QED BY <1>8, <3>3, IdleIsCall DEF Release, wire, history, Conns, Everyone
  <2>2. CASE call[t].ptr \notin Mapped
    BY <1>8, <2>2, IdleIsCall DEF Release, wire, history, Conns, Everyone
  <2> QED BY <2>1, <2>2
<1>9. ASSUME NEW t \in Threads, Send(t)
      PROVE  HostShape'
  <2>1. call' \in [Everyone -> Call]
    BY <1>9, IdleIsCall DEF Send, Call, Steps, Everyone
  <2>2. lock' \in Everyone \cup {NoOne} /\ link # 0
    BY <1>9 DEF Send, Alive, Everyone
  <2> QED BY <1>9, <2>1, <2>2 DEF Send, history, Conns
<1>10. ASSUME NEW t \in Everyone, SendFails(t) \/ RecvFails(t)
       PROVE  HostShape'
  <2>1. /\ call' = [call EXCEPT ![t] = GivenUp(call[t])]
        /\ \/ link' = link /\ net' = net
           \/ link' = 0 /\ link \in Conns /\ net' = [net EXCEPT ![link] = "cut"]
    BY <1>10, FailedEffect DEF SendFails, RecvFails
  <2>2. GivenUp(call[t]) \in Call
    BY GivenUpIs
  <2>3. lock' = NoOne /\ UNCHANGED <<table, held>>
    BY <1>10 DEF SendFails, RecvFails, history
  <2>4. Conns' = Conns /\ link' \in {0} \cup Conns
    BY <2>1 DEF Conns
  <2> QED BY <2>1, <2>2, <2>3, <2>4
<1>11. ASSUME NEW t \in Everyone, Recv(t)
       PROVE  HostShape'
  <2>1. Heard(call[t], resp[link][1]) \in Call
    BY <1>11, RecvEffect, HeardIs
  <2> QED BY <1>11, <2>1, RecvEffect DEF Conns
<1>12. CASE Reconnect
  <2>1. link' \in Conns' /\ Conns \subseteq Conns'
    <3>1. <<>> \in Seq(Msg)
      OBVIOUS
    <3> QED BY <1>12, <3>1, OpenedEffect DEF Reconnect
  <2>2. link' # 0
    BY <1>12, ConnsAre DEF Reconnect, Opened
  <2> QED BY <1>12, <2>1, <2>2 DEF Reconnect, history
<1>13. ASSUME NEW t \in Threads, MemInfoConnects(t)
       PROVE  HostShape'
  <2>1. CASE Opened(<<Message(t)>>) /\ call' = [call EXCEPT ![t].step = "recv"] /\ lock' = t
    <3> DEFINE first == <<Message(t)>>
    <3>1. first \in Seq(Msg) /\ Opened(first)
      BY <2>1, MessageIs
    <3> HIDE DEF first
    <3>2. link' \in Conns' /\ Conns \subseteq Conns'
      BY <3>1, OpenedEffect
    <3>3. link' \in Conns' /\ Conns \subseteq Conns' /\ link' # 0
      BY <3>1, <3>2, ConnsAre DEF Opened
    <3>4. call' \in [Everyone -> Call]
      BY <2>1 DEF Call, Steps, Everyone
    <3> QED BY <1>13, <2>1, <3>3, <3>4 DEF MemInfoConnects, history, Everyone
  <2>2. CASE call' = [call EXCEPT ![t] = Idle] /\ UNCHANGED <<link, lock, wire>>
    BY <1>13, <2>2, IdleIsCall DEF MemInfoConnects, history, wire, Conns, Everyone
  <2> QED BY <1>13, <2>1, <2>2 DEF MemInfoConnects
<1>14. CASE Beat
  <2>1. [Idle EXCEPT !.op = "beat", !.step = "recv"] \in Call /\ Hb \in Everyone
    BY IdleIsCall DEF Call, Ops, Steps, Everyone
  <2>2. call' \in [Everyone -> Call] /\ lock' \in Everyone \cup {NoOne} /\ link' \in {0, link}
        /\ (lock' # NoOne => link' # 0)
    BY <1>14, <2>1 DEF Beat
  <2> QED BY <1>14, <2>2 DEF Beat, history, Conns
<1>15. ASSUME UNCHANGED host, held' = held, Conns \subseteq Conns'
       PROVE  HostShape'
  BY <1>15 DEF host
<1>16. ASSUME NEW k \in Conns, Serve(k)
       PROVE  HostShape'
  <2>1. k \in clients /\ req[k] # <<>>
    BY <1>16, ServeEffect
  <2>2. PICK ok \in BOOLEAN, h \in Nat, v \in Datum : Served(k, Next1(k), ok, h, v)
    BY <1>16, ServeEffect
  <2>3. UNCHANGED host /\ held' = held /\ net' = net
    BY <2>1, <2>2, ServedEffect DEF host
  <2> QED BY <1>15, <2>3 DEF Conns
<1>17. ASSUME NEW k \in Conns, ClientCleanup(k) \/ Cut(k)
       PROVE  HostShape'
  <2>1. UNCHANGED host /\ held' = held /\ net' = [net EXCEPT ![k] = "cut"]
    BY <1>17 DEF ClientCleanup, Cut, history
  <2> QED BY <1>15, <2>1 DEF Conns
<1>18. CASE Restart
  BY <1>15, <1>18 DEF Restart, Conns
<1>19. CASE UNCHANGED fabric
  BY <1>15, <1>19 DEF fabric, wire, history, Conns
<1>20. Threads \subseteq Everyone
  BY DEF Everyone
<1> QED
  BY <1>2, <1>3, <1>4, <1>5, <1>6, <1>7, <1>8, <1>9, <1>10, <1>11, <1>12, <1>13, <1>14, <1>16, <1>17,
     <1>18, <1>19, <1>20 DEF Next, Begin, Locked, Goes, Ends

-----------------------------------------------------------------------------
(* The calls, and who has the lock. *)

LEMMA HandlesGrow ==
  ASSUME IInv, [Next]_fabric PROVE handles \in Nat /\ handles' \in Nat /\ handles <= handles'
<1>1. handles \in Nat /\ handles' \in Nat
  BY StepFeeder DEF IInv, FeederShape
<1>2. ASSUME NEW k \in Conns, Serve(k) PROVE handles <= handles'
  <2>1. PICK ok \in BOOLEAN, h \in Nat : SameBlocks(k, h) \/ MoreBlocks(k, ok, h) \/ FewerBlocks(k, h)
    BY <1>2, ServeEffect
  <2>2. handles' = handles \/ handles' = handles + 1
    BY <2>1 DEF SameBlocks, MoreBlocks, FewerBlocks
  <2> QED BY <1>1, <2>2
<1>3. \/ handles' = handles
      \/ \E k \in Conns : Serve(k)
  BY FeederFrame DEF feeder, Opened, ClientCleanup, Restart
<1> QED BY <1>1, <1>2, <1>3

\* One call changes, and perhaps its hold on the lock.
LEMMA CallSet ==
  ASSUME IInv, [Next]_fabric, NEW t \in Everyone, NEW c \in Call, call' = [call EXCEPT ![t] = c],
         Proper(c), c.handle <= handles', c.step = "recv" <=> lock' = t,
         \A u \in Everyone \ {t} : lock' = u <=> lock = u, t = Hb => c.op \in {"idle", "beat"}
  PROVE  Calls'
<1>1. handles \in Nat /\ handles' \in Nat /\ handles <= handles'
  BY HandlesGrow
<1> SUFFICES ASSUME NEW u \in Everyone PROVE CallOK(u)'
  BY DEF Calls
<1>2. CASE u = t
  BY <1>2 DEF CallOK, IInv, HostShape
<1>3. CASE u # t
  <2>1. call'[u] = call[u] /\ (lock' = u <=> lock = u)
    BY <1>3 DEF IInv, HostShape
  <2>2. CallOK(u) /\ call[u].handle \in Nat
    BY DEF IInv, Calls, HostShape, Call
  <2> QED BY <1>1, <2>1, <2>2 DEF CallOK
<1> QED BY <1>2, <1>3

LEMMA CallsKept == ASSUME IInv, [Next]_fabric, call' = call, lock' = lock PROVE Calls'
<1>1. handles \in Nat /\ handles' \in Nat /\ handles <= handles'
  BY HandlesGrow
<1>2. \A u \in Everyone : CallOK(u) /\ call[u].handle \in Nat
  BY DEF IInv, Calls, HostShape, Call
<1> QED BY <1>1, <1>2 DEF Calls, CallOK

LEMMA IdleIsProper == Proper(Idle) /\ Idle.handle = 0 /\ Idle.step = "idle" /\ Idle.op = "idle"
BY DEF Proper, Idle, Mallocs

LEMMA StepCalls == ASSUME ~Careless, IInv, [Next]_fabric PROVE Calls'
<1>1. /\ handles \in Nat /\ handles' \in Nat /\ handles <= handles'
      /\ NoOne \notin Everyone /\ Hb \notin Threads /\ Threads \subseteq Everyone /\ Hb \in Everyone
      /\ \A t \in Everyone : call[t] \in Call /\ CallOK(t) /\ call[t].handle <= handles'
  <2>1. \A t \in Everyone : call[t] \in Call /\ CallOK(t) /\ call[t].handle \in Nat
    BY DEF IInv, HostShape, Calls, Call
  <2> QED BY <2>1, HandlesGrow, FabricAssumption DEF Everyone, CallOK
<1>2. ASSUME NEW t \in Everyone, call' = [call EXCEPT ![t] = Idle], call[t].step # "recv", lock' = lock
      PROVE  Calls'
  <2> DEFINE c == Idle
  <2>1. c \in Call /\ Proper(c) /\ c.handle <= handles' /\ c.step # "recv" /\ c.op = "idle"
    BY <1>1, IdleIsCall, IdleIsProper
  <2>2. lock # t
    BY <1>1, <1>2 DEF CallOK
  <2> HIDE DEF c
  <2>3. call' = [call EXCEPT ![t] = c]
    BY <1>2 DEF c
  <2> QED BY <1>1, <1>2, <2>1, <2>2, <2>3, CallSet
<1>3. ASSUME NEW t \in Threads, Request(t) \/ MemInfo(t) \/ Copy(t)
      PROVE  Calls'
  <2>1. PICK c \in Call :
           /\ call' = [call EXCEPT ![t] = c] /\ call[t] = Idle
           /\ c.step = "send" /\ c.op \notin {"exec", "free", "undo", "idle", "beat"} /\ c.handle <= handles
           /\ c.op \in Mallocs => c.handle = 0
    BY <1>3, BeginEffect
  <2>2. lock' = lock /\ lock # t
    BY <1>1, <1>3, <2>1 DEF Request, MemInfo, Copy, CallOK, Idle
  <2>3. Proper(c) /\ c.handle <= handles'
    BY <1>1, <2>1 DEF Proper, Call
  <2> QED BY <1>1, <2>1, <2>2, <2>3, CallSet
<1>4. ASSUME NEW t \in Threads, Launch(t)
      PROVE  Calls'
  <2>1. PICK c \in Call : /\ call[t] = Idle /\ call' = [call EXCEPT ![t] = c]
                          /\ c.op = "exec" /\ c.step = "send" /\ c.handle <= handles
    BY <1>4, LaunchEffect
  <2>2. lock' = lock /\ lock # t
    BY <1>1, <1>4, <2>1 DEF Launch, CallOK, Idle
  <2>3. Proper(c) /\ c.handle <= handles'
    BY <1>1, <2>1 DEF Proper, Call, Mallocs
  <2> QED BY <1>1, <2>1, <2>2, <2>3, CallSet
<1>5. ASSUME NEW t \in Threads, Free(t)
      PROVE  Calls'
  <2>1. PICK c \in Call : /\ call[t] = Idle /\ call' = [call EXCEPT ![t] = c]
                          /\ c.op = "free" /\ c.step = "spin" /\ c.handle <= handles
    BY <1>5, FreeEffect
  <2>2. lock' = lock /\ lock # t
    BY <1>1, <1>5, <2>1 DEF Free, CallOK, Idle
  <2>3. Proper(c) /\ c.handle <= handles'
    BY <1>1, <2>1 DEF Proper, Call, Mallocs
  <2> QED BY <1>1, <2>1, <2>2, <2>3, CallSet
<1>6. ASSUME NEW t \in Threads, Spun(t)
      PROVE  Calls'
  <2> DEFINE c == [call[t] EXCEPT !.step = "unuse"]
  <2>1. call[t].step = "spin" /\ call' = [call EXCEPT ![t] = c] /\ lock' = lock
    BY <1>6 DEF Spun
  <2>2. c \in Call /\ Proper(c) /\ c.step = "unuse" /\ c.handle = call[t].handle
    BY <1>1, <2>1 DEF Call, Steps, CallOK, Proper, Mallocs
  <2>3. lock # t
    BY <1>1, <2>1 DEF CallOK
  <2> HIDE DEF c
  <2> QED BY <1>1, <2>1, <2>2, <2>3, CallSet
<1>7. ASSUME NEW t \in Threads, Unuse(t)
      PROVE  Calls'
  <2> DEFINE c == [call[t] EXCEPT !.step = "send"]
  <2>1. call[t].step = "unuse" /\ lock' = lock
        /\ (call' = [call EXCEPT ![t] = Idle] \/ call' = [call EXCEPT ![t] = c])
    BY <1>7 DEF Unuse, At
  <2>2. c \in Call /\ Proper(c) /\ c.step = "send" /\ c.handle = call[t].handle
    BY <1>1, <2>1 DEF Call, Steps, CallOK, Proper, Mallocs
  <2>3. lock # t
    BY <1>1, <2>1 DEF CallOK
  <2> HIDE DEF c
  <2> QED BY <1>1, <1>2, <2>1, <2>2, <2>3, CallSet
<1>8. ASSUME NEW t \in Threads, Insert(t)
      PROVE  Calls'
  <2> DEFINE c == [call[t] EXCEPT !.op = "undo", !.step = "send"]
  <2>1. call[t].step = "insert" /\ lock' = lock
        /\ (call' = [call EXCEPT ![t] = Idle] \/ call' = [call EXCEPT ![t].op = "undo", ![t].step = "send"])
    BY <1>8, InsertEffect
  <2>2. c \in Call /\ Proper(c) /\ c.step = "send" /\ c.handle = call[t].handle
    BY <1>1, <2>1 DEF Call, Ops, Steps, CallOK, Proper, Mallocs
  <2>3. lock # t
    BY <1>1, <2>1 DEF CallOK
  <2>4. call' = [call EXCEPT ![t] = Idle] \/ call' = [call EXCEPT ![t] = c]
    BY <1>1, <2>1
  <2> HIDE DEF c
  <2> QED BY <1>1, <1>2, <2>1, <2>2, <2>3, <2>4, CallSet
<1>9. ASSUME NEW t \in Threads, Release(t)
      PROVE  Calls'
  BY <1>1, <1>2, <1>9 DEF Release
<1>10. ASSUME NEW t \in Threads, Send(t)
       PROVE  Calls'
  <2> DEFINE c == [call[t] EXCEPT !.step = "recv"]
  <2>1. /\ call[t].step = "send" /\ lock = NoOne
        /\ \/ call' = [call EXCEPT ![t] = Idle] /\ lock' = lock
           \/ call' = [call EXCEPT ![t] = c] /\ lock' = t
    BY <1>10 DEF Send
  <2>2. c \in Call /\ Proper(c) /\ c.step = "recv" /\ c.handle = call[t].handle
    BY <1>1, <2>1 DEF Call, Steps, CallOK, Proper, Mallocs
  <2> HIDE DEF c
  <2> QED BY <1>1, <1>2, <2>1, <2>2, CallSet
<1>11. ASSUME NEW t \in Everyone, SendFails(t) \/ RecvFails(t)
       PROVE  Calls'
  <2> DEFINE c == GivenUp(call[t])
  <2>1. call' = [call EXCEPT ![t] = c] /\ lock \in {NoOne, t} /\ lock' = NoOne
    BY <1>11, FailedEffect DEF SendFails, RecvFails
  <2>2. call[t].op \in Ops
    BY <1>1 DEF Call
  <2>3. c \in Call /\ c.step # "recv" /\ c.handle \in {0, call[t].handle}
    BY <1>1, GivenUpIs
  <2>4. Proper(c)
    <3>1. CASE call[t].op = "exec"
      BY <1>1, <3>1, GivenUpIs DEF Proper, Call, Mallocs
    <3>2. CASE call[t].op # "exec"
      BY <1>1, <3>2, GivenUpIs DEF Proper, Mallocs
    <3> QED BY <3>1, <3>2
  <2>5. t = Hb => c.op \in {"idle", "beat"}
    BY <1>1, GivenUpIs DEF CallOK
  <2> HIDE DEF c
  <2>6. c.handle <= handles' /\ lock' # t /\ \A u \in Everyone \ {t} : lock' = u <=> lock = u
    BY <1>1, <2>1, <2>3
  <2> QED BY <1>1, <2>1, <2>3, <2>4, <2>5, <2>6, CallSet
<1>12. ASSUME NEW t \in Everyone, Recv(t)
       PROVE  Calls'
  <2>0. ASSUME NEW c \in Call, call' = [call EXCEPT ![t] = c], Proper(c), c.handle <= handles',
               c.step # "recv", lock = t, lock' = NoOne, t = Hb => c.op \in {"idle", "beat"}
        PROVE  Calls'
    BY <1>1, <2>0, CallSet
  <2> DEFINE r == resp[link][1]
             c == Heard(call[t], r)
  <2>1. /\ link # 0 /\ lock = t /\ lock' = NoOne /\ r \in Answer /\ resp[link] # <<>>
        /\ call' = [call EXCEPT ![t] = c]
    BY <1>12, RecvEffect
  <2>2. r.handle <= handles /\ r.handle \in Nat
    BY <2>1 DEF IInv, Wired, RespOK, Answer
  <2> HIDE DEF r
  <2>3. c \in Call /\ c.step \in {"idle", "insert", "release"}
    BY <1>1, <2>1, HeardIs
  <2>4. CASE c.step = "idle"
    <3>1. c = Idle
      BY <1>1, <2>1, <2>4, HeardIs
    <3>2. Proper(c) /\ c.handle <= handles' /\ c.op = "idle"
      BY <1>1, <3>1, IdleIsProper
    <3> HIDE DEF c
    <3> QED BY <2>0, <2>1, <2>3, <2>4, <3>2
  <2>5. CASE c.step = "insert"
    <3>1. call[t].op \in Mallocs /\ c.op = call[t].op /\ c.handle = r.handle
      BY <1>1, <2>1, <2>5, HeardIs
    <3>2. Proper(c) /\ c.handle <= handles' /\ t # Hb
      BY <1>1, <2>2, <2>5, <3>1 DEF Proper, Mallocs, CallOK
    <3> HIDE DEF c
    <3> QED BY <2>0, <2>1, <2>3, <2>5, <3>2
  <2>6. CASE c.step = "release"
    <3>1. call[t].op = "exec" /\ c = [call[t] EXCEPT !.step = "release"]
      BY <1>1, <2>1, <2>6, HeardIs
    <3>2. Proper(c) /\ c.handle <= handles' /\ t # Hb
      BY <1>1, <2>6, <3>1 DEF Proper, Mallocs, CallOK, Call
    <3> HIDE DEF c
    <3> QED BY <2>0, <2>1, <2>3, <2>6, <3>2
  <2> QED BY <2>3, <2>4, <2>5, <2>6
<1>13. ASSUME NEW t \in Threads, MemInfoConnects(t)
       PROVE  Calls'
  <2> DEFINE c == [call[t] EXCEPT !.step = "recv"]
  <2>1. /\ call[t].op = "mem_info" /\ call[t].step = "send" /\ lock = NoOne
        /\ \/ call' = [call EXCEPT ![t] = Idle] /\ lock' = lock
           \/ call' = [call EXCEPT ![t] = c] /\ lock' = t
    BY <1>13 DEF MemInfoConnects
  <2>2. c \in Call /\ Proper(c) /\ c.step = "recv" /\ c.handle = call[t].handle
    BY <1>1, <2>1 DEF Call, Steps, CallOK, Proper, Mallocs
  <2> HIDE DEF c
  <2> QED BY <1>1, <1>2, <2>1, <2>2, CallSet
<1>14. CASE Beat
  <2> DEFINE c == [Idle EXCEPT !.op = "beat", !.step = "recv"]
  <2>1. /\ call[Hb] = Idle /\ lock = NoOne
        /\ \/ call' = call /\ lock' = lock
           \/ call' = [call EXCEPT ![Hb] = c] /\ lock' = Hb
    BY <1>14 DEF Beat
  <2>2. c \in Call /\ Proper(c) /\ c.step = "recv" /\ c.op = "beat" /\ c.handle = 0
    BY IdleIsCall DEF Idle, Call, Ops, Steps, Proper, Mallocs
  <2> HIDE DEF c
  <2> QED BY <1>1, <2>1, <2>2, CallSet, CallsKept
<1>15. ASSUME NEW k \in Conns, Serve(k)
       PROVE  Calls'
  <2>1. k \in clients /\ req[k] # <<>>
    BY <1>15, ServeEffect
  <2> QED BY <1>15, <2>1, ServeEffect, ServedEffect, CallsKept
<1>16. ASSUME call' = call /\ lock' = lock PROVE Calls'
  BY <1>16, CallsKept
<1> QED
  BY <1>1, <1>3, <1>4, <1>5, <1>6, <1>7, <1>8, <1>9, <1>10, <1>11, <1>12, <1>13, <1>14, <1>15, <1>16
  DEF Next, Begin, Locked, Goes, Ends, Reconnect, ClientCleanup, Cut, Restart, host, fabric

-----------------------------------------------------------------------------
(* A response is to the request of the thread that has the lock. *)

\* Nothing that is answered is on its way when nobody has the lock.
LEMMA LockFree ==
  ASSUME IInv, link # 0, lock = NoOne
  PROVE  /\ link \in Conns /\ resp[link] = <<>>
         /\ net[link] = "up" => \A i \in 1 .. Len(req[link]) : ~Answered(req[link][i])
<1>1. link \in Conns /\ NoOne \notin Everyone
  BY FabricAssumption DEF IInv, HostShape, Everyone
<1>2. resp[link] \in Seq(Answer) /\ req[link] \in Seq(Msg)
  BY <1>1 DEF IInv, WireShape
<1>3. resp[link] = <<>>
  <2>1. ASSUME resp[link] # <<>> PROVE FALSE
    <3>1. resp[link][1].of = lock /\ resp[link][1] \in Answer
      BY <1>2, <2>1 DEF IInv, Wired, RespOK
    <3> QED BY <1>1, <3>1 DEF Answer
  <2> QED BY <2>1
<1>4. ASSUME net[link] = "up", NEW i \in 1 .. Len(req[link]) PROVE ~Answered(req[link][i])
  <2>1. req[link][i] \in Msg
    BY <1>2, ElementOfSeq
  <2> QED BY <1>1, <1>4, <2>1 DEF IInv, Wired, ReqOK, Msg
<1> QED BY <1>1, <1>3, <1>4

\* Blocks come and go, and what was answered stays so.
LEMMA RespKept ==
  ASSUME IInv, [Next]_fabric, link # 0, link' = link, lock' = lock, resp'[link] = resp[link],
         lock \in Everyone => call'[lock] = call[lock],
         \A h \in DOMAIN block' : h \in DOMAIN block \/ h = handles + 1
  PROVE  RespOK'
<1>1. RespOK
  BY DEF IInv, Wired
<1>2. handles \in Nat /\ handles' \in Nat /\ handles <= handles'
  BY HandlesGrow
<1>3. link \in Conns /\ resp[link] \in Seq(Answer)
  BY DEF IInv, HostShape, WireShape
<1>4. Len(resp'[link']) <= 1
  BY <1>1 DEF RespOK
<1>5. CASE resp[link] # <<>>
  <2>1. resp[link][1] \in Answer /\ resp[link][1].of = lock
    BY <1>1, <1>3, <1>5 DEF RespOK
  <2>2. lock \in Everyone /\ resp[link][1].handle \in Nat
    BY <2>1 DEF Answer
  <2>3. call'[lock] = call[lock] /\ call[lock].handle <= handles /\ call[lock].handle \in Nat
    BY <2>2 DEF IInv, Calls, CallOK, HostShape, Call
  <2>4. call[lock].op \in Frees => call[lock].handle \notin DOMAIN block'
    BY <1>1, <1>2, <1>5, <2>3 DEF RespOK
  <2> QED BY <1>1, <1>2, <1>4, <1>5, <2>1, <2>2, <2>3, <2>4 DEF RespOK
<1>6. CASE resp[link] = <<>>
  BY <1>4, <1>6 DEF RespOK
<1> QED BY <1>5, <1>6

LEMMA ReqKept ==
  ASSUME IInv, link # 0, link' = link, lock' = lock, net[link] = "up", resp'[link] = resp[link], req'[link] = req[link],
         lock \in Everyone => call'[lock] = call[lock]
  PROVE  ReqOK'
<1>1. ReqOK /\ link \in Conns
  BY DEF IInv, Wired, HostShape
<1>2. \A i \in 1 .. Len(req[link]) : Answered(req[link][i]) => lock \in Everyone
  <2> SUFFICES ASSUME NEW i \in 1 .. Len(req[link]), Answered(req[link][i]) PROVE lock \in Everyone
    OBVIOUS
  <2>1. req[link] \in Seq(Msg)
    BY <1>1 DEF IInv, WireShape
  <2>2. req[link][i] \in Msg
    BY <2>1, ElementOfSeq
  <2> QED BY <1>1, <2>2 DEF ReqOK, Msg
<1>3. \A i, j \in 1 .. Len(req'[link]) : Answered(req'[link][i]) /\ Answered(req'[link][j]) => i = j
  BY <1>1 DEF ReqOK
<1>4. ASSUME NEW i \in 1 .. Len(req'[link]), Answered(req'[link][i])
      PROVE  /\ resp'[link] = <<>> /\ req'[link][i].of = lock
             /\ req'[link][i].op = "malloc" => call'[lock].op \in Mallocs
             /\ call'[lock].op \in Frees =>
                  req'[link][i].op = "free" /\ req'[link][i].handle = call'[lock].handle
  BY <1>1, <1>2, <1>4 DEF ReqOK
<1> QED BY <1>3, <1>4 DEF ReqOK, Answered

\* t asks, when nobody was asking.
LEMMA AskedOK ==
  ASSUME IInv, link # 0, lock = NoOne, net[link] = "up", NEW t \in Everyone, NEW m \in Msg, m.of = t,
         link' = link, lock' = t, resp' = resp, req' = [req EXCEPT ![link] = Append(@, m)],
         m.op = "malloc" => call'[t].op \in Mallocs,
         call'[t].op \in Frees => m.op = "free" /\ m.handle = call'[t].handle
  PROVE  Wired'
<1>1. /\ link \in Conns /\ resp[link] = <<>> /\ req[link] \in Seq(Msg)
      /\ \A i \in 1 .. Len(req[link]) : ~Answered(req[link][i])
  BY LockFree DEF IInv, WireShape
<1>2. /\ req'[link] = Append(req[link], m) /\ Len(req'[link]) = Len(req[link]) + 1 /\ Len(req[link]) \in Nat
      /\ \A i \in 1 .. Len(req[link]) : req'[link][i] = req[link][i]
      /\ req'[link][Len(req[link]) + 1] = m
  BY <1>1, AppendProperties DEF IInv, WireShape
<1>3. \A i \in 1 .. Len(req'[link]) :
         Answered(req'[link][i]) => i = Len(req[link]) + 1 /\ req'[link][i] = m
  BY <1>1, <1>2
<1>4. ReqOK'
  BY <1>1, <1>2, <1>3 DEF ReqOK, Answered
<1>5. RespOK'
  BY <1>1 DEF RespOK
<1> QED BY <1>4, <1>5 DEF Wired

LEMMA StepWired == ASSUME ~Careless, IInv, [Next]_fabric PROVE Wired'
<1>1. /\ NoOne \notin Everyone /\ Hb \notin Threads /\ Threads \subseteq Everyone /\ Hb \in Everyone
      /\ \A t \in Everyone : call[t] \in Call /\ CallOK(t)
  BY FabricAssumption DEF Everyone, IInv, HostShape, Calls
<1>2. ASSUME NEW t \in Everyone, lock # t, UNCHANGED <<link, lock, net, req, resp, block>>, NEW c,
             call' = [call EXCEPT ![t] = c]
      PROVE  Wired'
  <2>1. lock \in Everyone => call'[lock] = call[lock]
    BY <1>2 DEF IInv, HostShape
  <2>2. link # 0 => RespOK'
    BY <1>2, <2>1, RespKept
  <2>3. link # 0 /\ net[link] = "up" => ReqOK'
    BY <1>2, <2>1, ReqKept
  <2> QED BY <1>2, <2>2, <2>3 DEF Wired
<1>3. ASSUME NEW t \in Threads, Begin(t) \/ Goes(t)
      PROVE  Wired'
  <2>1. UNCHANGED <<link, lock, net, req, resp, block>>
    BY <1>3 DEF Begin, Goes, Request, MemInfo, Copy, Launch, Free, Spun, Unuse, Insert, Release, wire,
                feeder
  <2>2. \E c : call' = [call EXCEPT ![t] = c]
    BY <1>3 DEF Begin, Goes, Request, MemInfo, Copy, Launch, Free, Starts, Spun, Unuse, Insert, Release
  <2>3. call[t].step # "recv"
    BY <1>3 DEF Begin, Goes, Request, MemInfo, Copy, Launch, Free, Starts, Idle, Spun, Unuse, Insert, Release
  <2> QED BY <1>1, <1>2, <2>1, <2>2, <2>3 DEF CallOK
<1>4. ASSUME NEW t \in Threads, Send(t)
      PROVE  Wired'
  <2>1. /\ call[t].step = "send" /\ lock = NoOne /\ link # 0 /\ net[link] = "up"
        /\ req' = [req EXCEPT ![link] = Append(@, Message(t))] /\ UNCHANGED <<link, net, resp>>
    BY <1>4 DEF Send, Alive
  <2>2. Message(t) \in Msg /\ Message(t).of = t /\ Message(t).handle = call[t].handle
        /\ (Message(t).op = "note" <=> call[t].op = "note")
        /\ (Message(t).op = "malloc" <=> call[t].op \in Mallocs)
        /\ (call[t].op \in Frees => Message(t).op = "free")
    BY MessageIs
  <2>3. CASE call[t].op = "note"
    <3>1. lock' = NoOne
      BY <1>4, <2>1, <2>3 DEF Send
    <3>2. /\ link \in Conns /\ resp[link] = <<>> /\ req[link] \in Seq(Msg)
          /\ \A i \in 1 .. Len(req[link]) : ~Answered(req[link][i])
      BY <2>1, LockFree DEF IInv, WireShape
    <3>3. ~Answered(Message(t))
      BY <2>2, <2>3 DEF Answered
    <3>4. /\ req'[link] = Append(req[link], Message(t)) /\ Len(req'[link]) = Len(req[link]) + 1
          /\ \A i \in 1 .. Len(req[link]) : req'[link][i] = req[link][i]
          /\ req'[link][Len(req[link]) + 1] = Message(t) /\ Len(req[link]) \in Nat
      BY <2>1, <2>2, <3>2, AppendProperties DEF IInv, WireShape
    <3>5. \A i \in 1 .. Len(req'[link]) : ~Answered(req'[link][i])
      BY <3>2, <3>3, <3>4
    <3>6. ReqOK'
      BY <2>1, <3>5 DEF ReqOK, Answered
    <3>7. RespOK'
      BY <2>1, <3>2 DEF RespOK
    <3> QED BY <3>6, <3>7 DEF Wired
  <2>4. CASE call[t].op # "note"
    <3>1. lock' = t /\ call'[t].op = call[t].op /\ call'[t].handle = call[t].handle
      BY <1>1, <1>4, <2>4 DEF Send, IInv, HostShape, Call
    <3> QED BY <1>1, <2>1, <2>2, <3>1, AskedOK
  <2> QED BY <2>3, <2>4
<1>5. ASSUME link' = 0 \/ (link' = link /\ net' = net /\ req' = req /\ resp'[link] = <<>> /\ lock' = NoOne
                           /\ (net[link] = "up" => \A i \in 1 .. Len(req[link]) : ~Answered(req[link][i])))
      PROVE  Wired'
  <2>1. CASE link' = 0
    BY <2>1 DEF Wired
  <2>2. CASE link' # 0
    <3>1. RespOK'
      BY <1>5, <2>2 DEF RespOK
    <3>2. net'[link'] = "up" => ReqOK'
      BY <1>5, <2>2 DEF ReqOK, Answered
    <3> QED BY <3>1, <3>2 DEF Wired
  <2> QED BY <2>1, <2>2
<1>6. ASSUME NEW t \in Everyone, SendFails(t) \/ RecvFails(t)
      PROVE  Wired'
  <2>1. link' = 0 \/ (link' = link /\ net' = net)
    BY <1>6, FailedEffect DEF SendFails, RecvFails
  <2>2. lock' = NoOne /\ req' = req /\ resp' = resp
    BY <1>6 DEF SendFails, RecvFails
  <2>3. CASE SendFails(t) /\ link # 0
    <3>1. lock = NoOne
      BY <2>3 DEF SendFails
    <3> QED BY <1>5, <2>1, <2>2, <2>3, <3>1, LockFree
  <2>4. CASE RecvFails(t)
    <3>1. resp[link] = <<>> /\ net[link] = "cut"
      BY <2>4 DEF RecvFails
    <3> QED BY <1>5, <2>1, <2>2, <3>1
  <2>5. CASE link = 0
    BY <1>5, <2>1, <2>5
  <2> QED BY <1>6, <2>3, <2>4, <2>5
<1>7. ASSUME NEW t \in Everyone, Recv(t)
      PROVE  Wired'
  <2>1. /\ link # 0 /\ lock' = NoOne /\ resp[link] # <<>>
        /\ resp' = [resp EXCEPT ![link] = Tail(@)] /\ UNCHANGED <<link, net, req>>
    BY <1>7, RecvEffect
  <2>2. link \in Conns /\ resp[link] \in Seq(Answer) /\ Len(resp[link]) <= 1
    BY <2>1 DEF IInv, HostShape, WireShape, Wired, RespOK
  <2>3. Tail(resp[link]) = <<>>
    BY <2>1, <2>2, TailOfOne
  <2>4. resp'[link] = <<>>
    BY <2>1, <2>2, <2>3 DEF IInv, WireShape
  <2>5. net[link] = "up" => \A i \in 1 .. Len(req[link]) : ~Answered(req[link][i])
    BY <2>1 DEF IInv, Wired, ReqOK
  <2> QED BY <1>5, <2>1, <2>4, <2>5
<1>8. CASE Reconnect
  <2> DEFINE none == <<>>
  <2>1. none \in Seq(Msg) /\ Opened(none)
    BY <1>8 DEF Reconnect
  <2>2. req'[link'] = none /\ resp'[link'] = <<>>
    <3> HIDE DEF none
    <3> QED BY <2>1, OpenedEffect
  <2>3. Len(req'[link']) = 0 /\ Len(resp'[link']) = 0
    BY <2>2
  <2> QED BY <2>2, <2>3 DEF Wired, RespOK, ReqOK
<1>9. ASSUME NEW t \in Threads, MemInfoConnects(t)
      PROVE  Wired'
  <2>1. CASE Opened(<<Message(t)>>) /\ call' = [call EXCEPT ![t].step = "recv"] /\ lock' = t
    <3> DEFINE first == <<Message(t)>>
    <3>1. first \in Seq(Msg) /\ Opened(first)
      BY <2>1, MessageIs
    <3>2. req'[link'] = first /\ resp'[link'] = <<>>
      <4> HIDE DEF first
      <4> QED BY <3>1, OpenedEffect
    <3>3. Len(req'[link']) = 1 /\ req'[link'][1] = Message(t)
      BY <3>2
    <3>4. Message(t).of = t /\ Message(t).op # "malloc" /\ call'[t].op = "mem_info"
      BY <1>1, <1>9, <2>1, MessageIs DEF MemInfoConnects, IInv, HostShape, Call, Mallocs
    <3>5. RespOK'
      BY <3>2 DEF RespOK
    <3>6. ReqOK'
      BY <2>1, <3>2, <3>3, <3>4 DEF ReqOK, Frees
    <3> QED BY <3>5, <3>6 DEF Wired
  <2>2. CASE UNCHANGED link
    <3>1. link' = 0
      BY <1>9, <2>2 DEF MemInfoConnects
    <3> QED BY <1>5, <3>1
  <2> QED BY <1>9, <2>1, <2>2 DEF MemInfoConnects
<1>10. CASE Beat
  <2>1. CASE net[link] = "up"
    <3> DEFINE m == [op |-> "beat", of |-> Hb, handle |-> 0, val |-> Junk]
    <3>1. /\ req' = [req EXCEPT ![link] = Append(@, m)] /\ UNCHANGED <<link, net, resp>>
          /\ link # 0 /\ lock = NoOne /\ lock' = Hb /\ call'[Hb].op = "beat"
      BY <1>1, <1>10, <2>1 DEF Beat, IInv, HostShape, Idle
    <3>2. m \in Msg /\ m.of = Hb /\ m.op = "beat"
      BY <1>1 DEF Msg, Ops, Datum
    <3> HIDE DEF m
    <3> QED BY <1>1, <2>1, <3>1, <3>2, AskedOK DEF Frees
  <2>2. CASE net[link] # "up"
    <3>1. link' = 0
      BY <1>10, <2>2 DEF Beat, Closes, Idle
    <3> QED BY <1>5, <3>1
  <2> QED BY <2>1, <2>2
<1>11. ASSUME UNCHANGED <<link, lock, call>>, link # 0 => resp'[link] = resp[link],
              \A h \in DOMAIN block' : h \in DOMAIN block \/ h = handles + 1,
              link # 0 => net'[link] = "cut" \/ (net'[link] = net[link] /\ req'[link] = req[link])
       PROVE  Wired'
  <2>1. link # 0 => RespOK'
    BY <1>11, RespKept
  <2>2. link # 0 /\ net'[link] = "up" => ReqOK'
    BY <1>11, ReqKept
  <2> QED BY <1>11, <2>1, <2>2 DEF Wired
<1>12. ASSUME NEW k \in Conns, Serve(k)
       PROVE  Wired'
  <2> DEFINE m == Next1(k)
  <2>1. k \in clients /\ req[k] # <<>>
    BY <1>12, ServeEffect
  <2>2. PICK ok \in BOOLEAN, h \in Nat, v \in Datum :
          /\ Served(k, m, ok, h, v)
          /\ SameBlocks(k, h) \/ MoreBlocks(k, ok, h) \/ FewerBlocks(k, h)
    BY <1>12, ServeEffect
  <2> DEFINE a == [of |-> m.of, ok |-> ok, handle |-> h, val |-> v]
  <2>3. /\ req[k] \in Seq(Msg) /\ m \in Msg /\ m = req[k][1]
        /\ req' = [req EXCEPT ![k] = Tail(@)]
        /\ \/ resp' = resp /\ (net[k] = "cut" \/ ~Answered(m))
           \/ /\ net[k] = "up" /\ Answered(m) /\ a \in Answer
              /\ resp' = [resp EXCEPT ![k] = Append(@, a)]
        /\ UNCHANGED <<link, lock, call, net>>
    BY <2>1, <2>2, ServedEffect
  <2>4. \A x \in DOMAIN block' : x \in DOMAIN block \/ x = handles + 1
    BY <2>2 DEF SameBlocks, MoreBlocks, FewerBlocks, Put, Drop
  <2> HIDE DEF m, a
  <2>5. CASE link = 0 \/ k # link
    <3>1. link # 0 => resp'[link] = resp[link] /\ req'[link] = req[link]
      BY <2>3, <2>5 DEF IInv, WireShape, HostShape
    <3> QED BY <1>11, <2>3, <2>4, <3>1
  <2>6. CASE k = link /\ link # 0 /\ net[k] = "cut"
    BY <1>11, <2>3, <2>4, <2>6
  <2>7. /\ Tail(req[k]) \in Seq(Msg) /\ Len(Tail(req[k])) = Len(req[k]) - 1 /\ Len(req[k]) \in Nat
        /\ \A i \in 1 .. Len(Tail(req[k])) : Tail(req[k])[i] = req[k][i + 1]
        /\ Len(req[k]) > 0 /\ req'[k] = Tail(req[k])
    BY <2>1, <2>3, HeadTailProperties, EmptySeq DEF IInv, WireShape
  <2>8. CASE k = link /\ link # 0 /\ net[k] = "up" /\ ~Answered(m)
    <3>1. resp' = resp
      BY <2>3, <2>8
    <3>2. RespOK'
      BY <2>3, <2>4, <2>8, <3>1, RespKept
    <3>3. ReqOK
      BY <2>8 DEF IInv, Wired
    <3>4. link' = link /\ lock' = lock /\ call' = call /\ resp'[link] = resp[link]
          /\ \A i \in 1 .. Len(req'[link]) : i + 1 \in 1 .. Len(req[link]) /\ req'[link][i] = req[link][i + 1]
      <4>1. \A i \in 1 .. Len(req'[k]) : i + 1 \in 1 .. Len(req[k]) /\ req'[k][i] = req[k][i + 1]
        BY <2>7
      <4> QED BY <2>3, <2>8, <3>1, <4>1
    <3>5. ReqOK'
      <4>1. \A i, j \in 1 .. Len(req'[link]) : Answered(req'[link][i]) /\ Answered(req'[link][j]) => i = j
        BY <3>3, <3>4 DEF ReqOK
      <4>2. ASSUME NEW i \in 1 .. Len(req'[link]), Answered(req'[link][i])
            PROVE  /\ resp'[link] = <<>> /\ req'[link][i].of = lock
                   /\ req'[link][i].op = "malloc" => call[lock].op \in Mallocs
                   /\ call[lock].op \in Frees =>
                        req'[link][i].op = "free" /\ req'[link][i].handle = call[lock].handle
        BY <3>3, <3>4, <4>2 DEF ReqOK
      <4> QED BY <3>4, <4>1, <4>2 DEF ReqOK, Answered
    <3> QED BY <3>2, <3>5 DEF Wired
  <2>9. CASE k = link /\ link # 0 /\ net[k] = "up" /\ Answered(m)
    <3>1. 1 \in 1 .. Len(req[k]) /\ ReqOK
      BY <2>7, <2>9 DEF IInv, Wired
    <3>2. /\ resp[k] = <<>> /\ m.of = lock /\ (m.op = "malloc" => call[lock].op \in Mallocs)
          /\ (call[lock].op \in Frees => m.op = "free" /\ m.handle = call[lock].handle)
      BY <2>3, <2>9, <3>1 DEF ReqOK
    <3>3. resp' = [resp EXCEPT ![k] = Append(@, a)] /\ a \in Answer
      BY <2>3, <2>9
    <3>4. resp'[k] = <<a>>
      BY <3>2, <3>3 DEF IInv, WireShape
    <3>5. Len(resp'[k]) = 1 /\ resp'[k][1] = a
      BY <3>4
    <3>6. a.of = lock /\ a.ok = ok /\ a.handle = h
      BY <3>2 DEF a
    <3>7. /\ h # 0 => ok /\ m.op = "malloc"
          /\ ~ok => h = 0
          /\ m.op = "free" => m.handle \notin DOMAIN block'
      BY <2>2 DEF SameBlocks, MoreBlocks, FewerBlocks, Drop, m
    <3>8. h <= handles'
      BY <2>2, HandlesGrow DEF SameBlocks, MoreBlocks, FewerBlocks
    <3>9. RespOK'
      BY <2>3, <2>9, <3>2, <3>5, <3>6, <3>7, <3>8 DEF RespOK
    <3>10. \A i \in 1 .. Len(req'[k]) : ~Answered(req'[k][i])
      <4> SUFFICES ASSUME NEW i \in 1 .. Len(req'[k]), Answered(req'[k][i]) PROVE FALSE
        OBVIOUS
      <4>1. i + 1 \in 1 .. Len(req[k]) /\ req'[k][i] = req[k][i + 1]
        BY <2>7
      <4>2. i + 1 = 1
        BY <2>3, <2>9, <3>1, <4>1 DEF ReqOK
      <4> QED BY <4>2
    <3>11. ReqOK'
      BY <2>3, <2>9, <3>10 DEF ReqOK, Answered
    <3> QED BY <3>9, <3>11 DEF Wired
  <2>10. net[k] \in {"up", "cut"}
    BY <2>1 DEF IInv, WireShape, FeederShape, Conns
  <2> QED BY <2>5, <2>6, <2>8, <2>9, <2>10
<1>13. ASSUME NEW k \in Conns, ClientCleanup(k)
       PROVE  Wired'
  <2>1. /\ UNCHANGED <<link, lock, call, resp>> /\ net' = [net EXCEPT ![k] = "cut"]
        /\ req' = [req EXCEPT ![k] = <<>>] /\ \A h \in DOMAIN block' : h \in DOMAIN block
    BY <1>13 DEF ClientCleanup, host, Drop
  <2>2. link # 0 => net'[link] = "cut" \/ (net'[link] = net[link] /\ req'[link] = req[link])
    BY <2>1 DEF IInv, WireShape, HostShape, Conns
  <2> QED BY <1>11, <2>1, <2>2
<1>14. ASSUME NEW k \in Conns, Cut(k)
       PROVE  Wired'
  <2>1. /\ UNCHANGED <<link, lock, call, req, block>> /\ net' = [net EXCEPT ![k] = "cut"]
        /\ resp' = resp \/ resp' = [resp EXCEPT ![k] = <<>>]
    BY <1>14 DEF Cut, host, feeder
  <2>2. link # 0 => net'[link] = "cut" \/ (net'[link] = net[link] /\ req'[link] = req[link])
    BY <2>1 DEF IInv, WireShape, HostShape, Conns
  <2>3. CASE link # 0 /\ resp'[link] # resp[link]
    <3>1. k = link /\ resp'[link] = <<>> /\ net'[link] = "cut"
      BY <2>1, <2>3 DEF IInv, WireShape, HostShape, Conns
    <3>2. RespOK'
      BY <2>1, <3>1 DEF RespOK
    <3> QED BY <2>1, <3>1, <3>2 DEF Wired
  <2> QED BY <1>11, <2>1, <2>2, <2>3
<1>15. CASE Restart
  <2>1. /\ UNCHANGED <<link, lock, call, resp>> /\ net' = [k \in Conns |-> "cut"]
        /\ DOMAIN block' = {}
    BY <1>15 DEF Restart, host
  <2>2. link # 0 => net'[link] = "cut"
    BY <2>1 DEF IInv, HostShape
  <2> QED BY <1>11, <2>1, <2>2
<1>16. CASE UNCHANGED fabric
  BY <1>11, <1>16 DEF fabric, host, wire, feeder
<1> QED
  BY <1>1, <1>3, <1>4, <1>6, <1>7, <1>8, <1>9, <1>10, <1>12, <1>13, <1>14, <1>15, <1>16
  DEF Next, Locked, Ends

-----------------------------------------------------------------------------
(* The slots, and the launches that pin them. *)

Pinning(s) == {t \in Threads : call[t].op = "exec" /\ call[t].slot = s}

\* A launch has its own slot, and that slot is pinned.
LEMMA LaunchHas ==
  ASSUME IInv, NEW t \in Threads, call[t].op = "exec"
  PROVE  /\ call[t].slot \in Slots /\ call[t].ptr \in Mapped /\ SlotOf(call[t].ptr) = call[t].slot
         /\ table[call[t].slot].refs # 0
<1>1. call[t].slot \in Slots /\ call[t].ptr \in Ptrs /\ table[call[t].slot].ptr = call[t].ptr
  BY DEF IInv, SlotsOK, PinsExact
<1>2. call[t].ptr \in Mapped
  BY <1>1, FabricAssumption DEF Mapped
<1>3. SlotOf(call[t].ptr) \in Slots /\ table[SlotOf(call[t].ptr)].ptr = call[t].ptr
  BY <1>2, SlotOfMapped DEF IInv
<1>4. SlotOf(call[t].ptr) = call[t].slot
  BY <1>1, <1>3, FabricAssumption DEF IInv, SlotsOK
<1>5. IsFiniteSet(Pinning(call[t].slot)) /\ t \in Pinning(call[t].slot)
  BY FS_Subset, FabricAssumption DEF Pinning
<1>6. Cardinality(Pinning(call[t].slot)) # 0
  BY <1>5, FS_EmptySet
<1> QED BY <1>1, <1>2, <1>4, <1>6 DEF IInv, PinsExact, Pinning

\* Only the calls change, and none of them comes to free a slot or to launch.
LEMMA SlotsKept ==
  ASSUME IInv, [Next]_fabric, table' = table, held' = held,
         \A t \in Threads :
           \/ call'[t] = call[t]
           \/ /\ ~(call'[t].op = "free" /\ call'[t].step \in {"spin", "unuse"})
              /\ call'[t].op = "exec" =>
                   call[t].op = "exec" /\ call'[t].slot = call[t].slot /\ call'[t].ptr = call[t].ptr
  PROVE  SlotsOK'
<1>1. handles \in Nat /\ handles' \in Nat /\ handles <= handles'
  BY HandlesGrow
<1>2. \A s \in Slots : table[s].handle \in Nat /\ table[s].handle <= handles
  BY DEF IInv, HostShape, SlotsOK, Slot
<1>3. Mapped' = Mapped
  BY DEF Mapped
<1>4. \A s \in Slots : table'[s].handle <= handles'
  BY <1>1, <1>2
<1>5. \A t \in Threads : Freeing(t)' => Freeing(t) /\ call'[t] = call[t]
  BY DEF Freeing
<1>6. \A t \in Threads : Freeing(t)' =>
         /\ call'[t].slot \in Slots /\ call'[t].ptr \in Ptrs /\ held'[call'[t].ptr] = NoOne
         /\ table'[call'[t].slot].ptr = call'[t].ptr /\ table'[call'[t].slot].handle = call'[t].handle
         /\ call'[t].step = "unuse" => table'[call'[t].slot].refs = 0
  BY <1>5 DEF IInv, SlotsOK
<1>7. \A t, u \in Threads : Freeing(t)' /\ Freeing(u)' /\ call'[t].slot = call'[u].slot => t = u
  BY <1>5 DEF IInv, SlotsOK
<1>8. \A t \in Threads : call'[t].op = "exec" => call'[t].slot \in Slots /\ call'[t].ptr \in Ptrs
  BY DEF IInv, SlotsOK
<1> QED BY <1>3, <1>4, <1>6, <1>7, <1>8 DEF IInv, SlotsOK

\* What the actions without a change of the table or the pointers do to the calls.
LEMMA CallEffect ==
  ASSUME IInv, NEW t \in Everyone,
         \/ t \in Threads /\ (Request(t) \/ MemInfo(t) \/ Copy(t) \/ Send(t) \/ MemInfoConnects(t))
         \/ SendFails(t) \/ RecvFails(t) \/ Recv(t)
  PROVE  /\ table' = table /\ held' = held
         /\ \E c \in Call :
              /\ call' = [call EXCEPT ![t] = c]
              /\ ~(c.op = "free" /\ c.step \in {"spin", "unuse"})
              /\ c.op = "exec" <=> call[t].op = "exec"
              /\ c.op = "exec" => c.slot = call[t].slot /\ c.ptr = call[t].ptr
<1>1. call[t] \in Call /\ call[t].op \in Ops /\ Proper(call[t])
  BY DEF IInv, HostShape, Call, Calls, CallOK
<1>2. CASE t \in Threads /\ (Request(t) \/ MemInfo(t) \/ Copy(t))
  <2>1. table' = table /\ held' = held
    BY <1>2 DEF Request, MemInfo, Copy, history
  <2>2. PICK c \in Call :
           /\ call' = [call EXCEPT ![t] = c] /\ call[t] = Idle
           /\ c.step = "send" /\ c.op \notin {"exec", "free", "undo", "idle", "beat"}
    BY <1>2, BeginEffect
  <2> QED BY <2>1, <2>2, IdleIsProper
<1>3. CASE t \in Threads /\ (Send(t) \/ MemInfoConnects(t))
  <2> DEFINE c == [call[t] EXCEPT !.step = "recv"]
  <2>1. table' = table /\ held' = held
    BY <1>3 DEF Send, MemInfoConnects, history
  <2>2. \/ call' = [call EXCEPT ![t] = Idle] /\ call[t].op \in {"note", "mem_info"}
        \/ call' = [call EXCEPT ![t].step = "recv"]
    BY <1>3 DEF Send, MemInfoConnects
  <2>3. c \in Call /\ c.step = "recv" /\ c.op = call[t].op /\ c.slot = call[t].slot /\ c.ptr = call[t].ptr
    BY <1>1 DEF Call, Steps
  <2>4. \/ call' = [call EXCEPT ![t] = Idle] /\ call[t].op \in {"note", "mem_info"}
        \/ call' = [call EXCEPT ![t] = c]
    BY <1>1, <2>2
  <2> HIDE DEF c
  <2>5. CASE call' = [call EXCEPT ![t] = c]
    <3>1. ~(c.op = "free" /\ c.step \in {"spin", "unuse"})
      BY <2>3
    <3> QED BY <2>1, <2>3, <2>5, <3>1
  <2>6. CASE call' = [call EXCEPT ![t] = Idle] /\ call[t].op \in {"note", "mem_info"}
    BY <2>1, <2>6, IdleIsCall, IdleIsProper
  <2> QED BY <2>4, <2>5, <2>6
<1>4. CASE SendFails(t) \/ RecvFails(t)
  <2>1. table' = table /\ held' = held /\ Failed(t)
    BY <1>4 DEF SendFails, RecvFails, history
  <2>2. call' = [call EXCEPT ![t] = GivenUp(call[t])] /\ GivenUp(call[t]) \in Call
    BY <1>1, <2>1, FailedEffect, GivenUpIs
  <2>3. CASE call[t].op = "exec"
    <3>1. GivenUp(call[t]) = [call[t] EXCEPT !.step = "release"]
      BY <1>1, <2>3, GivenUpIs
    <3>2. GivenUp(call[t]).op = "exec" /\ GivenUp(call[t]).slot = call[t].slot /\ GivenUp(call[t]).ptr = call[t].ptr
      BY <1>1, <2>3, <3>1 DEF Call
    <3> QED BY <2>1, <2>2, <2>3, <3>2
  <2>4. CASE call[t].op # "exec"
    <3>1. GivenUp(call[t]).op \in {"idle", "mem_info"}
      BY <1>1, <2>4, GivenUpIs
    <3> QED BY <2>1, <2>2, <2>4, <3>1
  <2> QED BY <2>3, <2>4
<1>5. CASE Recv(t)
  <2> DEFINE c == Heard(call[t], resp[link][1])
  <2>1. table' = table /\ held' = held /\ resp[link][1] \in Answer /\ call' = [call EXCEPT ![t] = c]
    BY <1>5, RecvEffect
  <2>2. c \in Call /\ c.step \in {"idle", "insert", "release"}
    BY <1>1, <2>1, HeardIs
  <2>3. CASE c.step = "idle"
    <3>1. c = Idle /\ call[t].op # "exec"
      BY <1>1, <2>1, <2>3, HeardIs
    <3>2. c.op = "idle"
      BY <3>1, IdleIsProper
    <3> HIDE DEF c
    <3> QED BY <2>1, <2>2, <3>1, <3>2
  <2>4. CASE c.step = "insert"
    <3>1. c.op = call[t].op /\ call[t].op \in Mallocs
      BY <1>1, <2>1, <2>4, HeardIs
    <3> HIDE DEF c
    <3> QED BY <2>1, <2>2, <2>4, <3>1 DEF Mallocs
  <2>5. CASE c.step = "release"
    <3>1. call[t].op = "exec" /\ c = [call[t] EXCEPT !.step = "release"]
      BY <1>1, <2>1, <2>5, HeardIs
    <3>2. c.op = "exec" /\ c.slot = call[t].slot /\ c.ptr = call[t].ptr
      BY <1>1, <3>1 DEF Call
    <3> HIDE DEF c
    <3> QED BY <2>1, <2>2, <3>1, <3>2
  <2> QED BY <2>2, <2>3, <2>4, <2>5
<1> QED BY <1>2, <1>3, <1>4, <1>5

LEMMA StepSlots == ASSUME ~Careless, IInv, [Next]_fabric PROVE SlotsOK'
<1>1. /\ handles \in Nat /\ handles' \in Nat /\ handles <= handles'
      /\ NoOne \notin Threads /\ Threads \subseteq Everyone /\ NoPtr \notin Ptrs
      /\ \A t \in Threads : call[t] \in Call /\ CallOK(t) /\ call[t].handle \in Nat
      /\ \A s \in Slots : table[s] \in Slot /\ table[s].handle \in Nat /\ table[s].handle <= handles
      /\ held \in [Ptrs -> Threads \cup {NoOne}] /\ SlotsOK
  BY HandlesGrow, FabricAssumption DEF Everyone, IInv, HostShape, Calls, Call, Slot, SlotsOK
<1>2. ASSUME NEW t \in Everyone,
             \/ t \in Threads /\ (Request(t) \/ MemInfo(t) \/ Copy(t) \/ Send(t) \/ MemInfoConnects(t))
             \/ SendFails(t) \/ RecvFails(t) \/ Recv(t)
      PROVE  SlotsOK'
  <2>1. table' = table /\ held' = held
    BY <1>2, CallEffect
  <2>2. PICK c \in Call : /\ call' = [call EXCEPT ![t] = c]
                          /\ ~(c.op = "free" /\ c.step \in {"spin", "unuse"})
                          /\ c.op = "exec" <=> call[t].op = "exec"
                          /\ c.op = "exec" => c.slot = call[t].slot /\ c.ptr = call[t].ptr
    BY <1>2, CallEffect
  <2>3. call'[t] = c /\ \A u \in Everyone \ {t} : call'[u] = call[u]
    BY <2>2 DEF IInv, HostShape
  <2> QED BY <1>1, <2>1, <2>2, <2>3, SlotsKept
<1>3. ASSUME NEW t \in Threads, Launch(t)
      PROVE  SlotsOK'
  <2>1. PICK p \in Mapped, c \in Call :
           /\ held[p] # NoOne /\ call[t] = Idle /\ call' = [call EXCEPT ![t] = c]
           /\ c.op = "exec" /\ c.step = "send" /\ c.ptr = p /\ c.slot = SlotOf(p)
           /\ table' = [table EXCEPT ![SlotOf(p)].refs = @ + 1]
    BY <1>3, LaunchEffect
  <2>2. p \in Ptrs /\ SlotOf(p) \in Slots /\ table[SlotOf(p)].ptr = p
    BY SlotOfMapped DEF IInv
  <2>3. held' = held
    BY <1>3 DEF Launch, history
  <2>4. /\ \A s \in Slots : /\ table'[s].ptr = table[s].ptr /\ table'[s].handle = table[s].handle
                            /\ s # SlotOf(p) => table'[s] = table[s]
        /\ Mapped' = Mapped
    <3>1. \A s \in Slots : /\ table'[s].ptr = table[s].ptr /\ table'[s].handle = table[s].handle
                           /\ s # SlotOf(p) => table'[s] = table[s]
      BY <1>1, <2>1, <2>2 DEF IInv, HostShape, Slot
    <3> QED BY <3>1 DEF Mapped
  <2>5. call'[t] = c /\ \A u \in Threads \ {t} : call'[u] = call[u]
    BY <1>1, <2>1 DEF IInv, HostShape
  <2>6. ~Freeing(t)' /\ \A u \in Threads : Freeing(u)' => u # t /\ Freeing(u) /\ call[u].slot # SlotOf(p)
    BY <1>1, <2>1, <2>2, <2>5 DEF Freeing, SlotsOK
  <2>7. \A u \in Threads : Freeing(u)' =>
         /\ call'[u].slot \in Slots /\ call'[u].ptr \in Ptrs /\ held'[call'[u].ptr] = NoOne
         /\ table'[call'[u].slot].ptr = call'[u].ptr /\ table'[call'[u].slot].handle = call'[u].handle
         /\ call'[u].step = "unuse" => table'[call'[u].slot].refs = 0
    BY <1>1, <2>3, <2>4, <2>5, <2>6 DEF SlotsOK
  <2>8. \A u, v \in Threads : Freeing(u)' /\ Freeing(v)' /\ call'[u].slot = call'[v].slot => u = v
    BY <1>1, <2>5, <2>6 DEF SlotsOK
  <2>9. \A u \in Threads : call'[u].op = "exec" => call'[u].slot \in Slots /\ call'[u].ptr \in Ptrs
    BY <1>1, <2>1, <2>2, <2>5 DEF SlotsOK
  <2>10. \A s \in Slots : table'[s].handle <= handles'
    BY <1>1, <2>4
  <2> QED BY <1>1, <2>3, <2>4, <2>7, <2>8, <2>9, <2>10 DEF SlotsOK
<1>4. ASSUME NEW t \in Threads, Free(t)
      PROVE  SlotsOK'
  <2>1. PICK p \in Mapped, c \in Call :
           /\ held[p] = t /\ call[t] = Idle /\ call' = [call EXCEPT ![t] = c]
           /\ c.op = "free" /\ c.step = "spin" /\ c.ptr = p /\ c.slot = SlotOf(p)
           /\ c.handle = table[SlotOf(p)].handle /\ held' = [held EXCEPT ![p] = NoOne]
    BY <1>4, FreeEffect
  <2>2. p \in Ptrs /\ SlotOf(p) \in Slots /\ table[SlotOf(p)].ptr = p
    BY SlotOfMapped DEF IInv
  <2>3. table' = table /\ Mapped' = Mapped
    BY <1>4 DEF Free, Mapped
  <2>4. call'[t] = c /\ \A u \in Threads \ {t} : call'[u] = call[u]
    BY <1>1, <2>1 DEF IInv, HostShape
  <2>5. \A u \in Threads \ {t} : Freeing(u)' => Freeing(u) /\ call[u].slot # SlotOf(p) /\ call[u].ptr # p
    BY <1>1, <2>1, <2>2, <2>4 DEF Freeing, SlotsOK
  <2>6. \A u \in Threads : Freeing(u)' =>
         /\ call'[u].slot \in Slots /\ call'[u].ptr \in Ptrs /\ held'[call'[u].ptr] = NoOne
         /\ table'[call'[u].slot].ptr = call'[u].ptr /\ table'[call'[u].slot].handle = call'[u].handle
         /\ call'[u].step = "unuse" => table'[call'[u].slot].refs = 0
    BY <1>1, <2>1, <2>2, <2>3, <2>4, <2>5 DEF SlotsOK
  <2>7. \A u, v \in Threads : Freeing(u)' /\ Freeing(v)' /\ call'[u].slot = call'[v].slot => u = v
    BY <1>1, <2>1, <2>4, <2>5 DEF SlotsOK
  <2>8. \A u \in Threads : call'[u].op = "exec" => call'[u].slot \in Slots /\ call'[u].ptr \in Ptrs
    BY <1>1, <2>1, <2>4 DEF SlotsOK
  <2>9. /\ \A s \in Slots : table'[s].handle <= handles'
        /\ \A q \in Ptrs : held'[q] # NoOne => q \in Mapped'
    BY <1>1, <2>1, <2>3 DEF SlotsOK
  <2> QED BY <1>1, <2>3, <2>6, <2>7, <2>8, <2>9 DEF SlotsOK
<1>5. ASSUME NEW t \in Threads, Spun(t)
      PROVE  SlotsOK'
  <2>1. /\ call[t].step = "spin" /\ table[call[t].slot].refs = 0 /\ table' = table /\ held' = held
        /\ call' = [call EXCEPT ![t].step = "unuse"] /\ call[t].op = "free"
    BY <1>1, <1>5 DEF Spun, Unpinned, history, CallOK, Proper
  <2>2. /\ call'[t].op = "free" /\ call'[t].slot = call[t].slot /\ call'[t].ptr = call[t].ptr
        /\ call'[t].handle = call[t].handle
        /\ \A u \in Threads \ {t} : call'[u] = call[u]
    BY <1>1, <2>1 DEF IInv, HostShape, Call
  <2>3. Freeing(t) /\ \A u \in Threads \ {t} : Freeing(u)' => Freeing(u)
    BY <2>1, <2>2 DEF Freeing
  <2>4. \A u \in Threads : Freeing(u)' =>
         /\ call'[u].slot \in Slots /\ call'[u].ptr \in Ptrs /\ held'[call'[u].ptr] = NoOne
         /\ table'[call'[u].slot].ptr = call'[u].ptr /\ table'[call'[u].slot].handle = call'[u].handle
         /\ call'[u].step = "unuse" => table'[call'[u].slot].refs = 0
    BY <1>1, <2>1, <2>2, <2>3 DEF SlotsOK
  <2>5. \A u, v \in Threads : Freeing(u)' /\ Freeing(v)' /\ call'[u].slot = call'[v].slot => u = v
    BY <1>1, <2>2, <2>3 DEF SlotsOK
  <2>6. \A u \in Threads : call'[u].op = "exec" => call'[u].slot \in Slots /\ call'[u].ptr \in Ptrs
    BY <1>1, <2>2 DEF SlotsOK
  <2>7. Mapped' = Mapped /\ \A s \in Slots : table'[s].handle <= handles'
    BY <1>1, <2>1 DEF Mapped
  <2> QED BY <1>1, <2>1, <2>4, <2>5, <2>6, <2>7 DEF SlotsOK
<1>6. ASSUME NEW t \in Threads, Unuse(t)
      PROVE  SlotsOK'
  <2> DEFINE s == call[t].slot
  <2>1. /\ call[t].step = "unuse" /\ held' = held /\ call[t].op = "free"
        /\ table' = [table EXCEPT ![s].ptr = NoPtr, ![s].handle = 0]
        /\ call' = [call EXCEPT ![t] = IF link = 0 THEN Idle ELSE At(@, "send")]
    BY <1>1, <1>6 DEF Unuse, history, CallOK, Proper
  <2>2. Freeing(t) /\ s \in Slots /\ table[s].ptr = call[t].ptr /\ held[call[t].ptr] = NoOne
    BY <1>1, <2>1 DEF Freeing, SlotsOK
  <2>3. /\ call'[t].step \in {"idle", "send"} /\ call'[t].op \in {"idle", "free"}
        /\ \A u \in Threads \ {t} : call'[u] = call[u]
    BY <1>1, <2>1, IdleIsProper DEF IInv, HostShape, Call, At
  <2> HIDE DEF s
  <2>4. /\ table'[s].ptr = NoPtr /\ table'[s].handle = 0
        /\ \A u \in Slots \ {s} : table'[u] = table[u]
    BY <1>1, <2>1, <2>2 DEF IInv, HostShape, Slot
  <2>5. \A u \in Threads : Freeing(u)' => u # t /\ Freeing(u) /\ call[u].slot # s
    BY <1>1, <2>2, <2>3 DEF Freeing, SlotsOK, s
  <2>6. ASSUME NEW u \in Threads, Freeing(u)'
        PROVE  /\ call'[u].slot \in Slots /\ call'[u].ptr \in Ptrs /\ held'[call'[u].ptr] = NoOne
               /\ table'[call'[u].slot].ptr = call'[u].ptr /\ table'[call'[u].slot].handle = call'[u].handle
               /\ call'[u].step = "unuse" => table'[call'[u].slot].refs = 0
    <3>1. u # t /\ Freeing(u) /\ call[u].slot # s /\ call'[u] = call[u]
      BY <2>3, <2>5, <2>6
    <3>2. call[u].slot \in Slots /\ table'[call[u].slot] = table[call[u].slot]
      BY <1>1, <2>4, <3>1 DEF SlotsOK
    <3> QED BY <1>1, <2>1, <3>1, <3>2 DEF SlotsOK
  <2>7. \A u, v \in Threads : Freeing(u)' /\ Freeing(v)' /\ call'[u].slot = call'[v].slot => u = v
    BY <1>1, <2>3, <2>5 DEF SlotsOK
  <2>8. \A u \in Threads : call'[u].op = "exec" => call'[u].slot \in Slots /\ call'[u].ptr \in Ptrs
    BY <1>1, <2>3 DEF SlotsOK
  <2>9. \A q \in Ptrs : held'[q] # NoOne => q \in Mapped'
    <3> SUFFICES ASSUME NEW q \in Ptrs, held[q] # NoOne PROVE q \in Mapped'
      BY <2>1
    <3>1. PICK u \in Slots : table[u].ptr = q
      BY <1>1 DEF SlotsOK, Mapped
    <3>2. u # s
      BY <2>2, <3>1
    <3> QED BY <1>1, <2>4, <3>1, <3>2 DEF Mapped
  <2>10. /\ \A u \in Slots : table'[u].handle <= handles'
         /\ \A u, v \in Slots : table'[u].ptr = table'[v].ptr /\ table'[u].ptr # NoPtr => u = v
    BY <1>1, <2>4 DEF SlotsOK
  <2> QED BY <2>6, <2>7, <2>8, <2>9, <2>10 DEF SlotsOK
<1>7. ASSUME NEW t \in Threads, Insert(t)
      PROVE  SlotsOK'
  <2>1. call[t].step = "insert" /\ call[t].op \in Mallocs
    BY <1>7, InsertEffect
  <2>2. ASSUME table' = table, held' = held, NEW c \in Call, c.op \in {"undo", "idle"}, call' = [call EXCEPT ![t] = c]
        PROVE  SlotsOK'
    <3>1. call'[t] = c /\ \A u \in Threads \ {t} : call'[u] = call[u]
      BY <1>1, <2>2 DEF IInv, HostShape
    <3> QED BY <2>2, <3>1, SlotsKept
  <2>3. CASE call' = [call EXCEPT ![t].op = "undo", ![t].step = "send"] /\ UNCHANGED <<table, held>>
    <3> DEFINE c == [call[t] EXCEPT !.op = "undo", !.step = "send"]
    <3>1. c \in Call /\ c.op = "undo" /\ call' = [call EXCEPT ![t] = c]
      BY <1>1, <2>3 DEF Call, Ops, Steps
    <3> HIDE DEF c
    <3> QED BY <2>2, <2>3, <3>1
  <2>4. CASE call' = [call EXCEPT ![t] = Idle] /\ UNCHANGED <<table, held>>
    BY <2>2, <2>4, IdleIsCall, IdleIsProper
  <2>5. ASSUME NEW s \in Slots, NEW p \in Ptrs \ Mapped, table[s].ptr = NoPtr,
               table' = [table EXCEPT ![s].ptr = p, ![s].handle = call[t].handle],
               held' = [held EXCEPT ![p] = t], call' = [call EXCEPT ![t] = Idle]
        PROVE  SlotsOK'
    <3>1. /\ table'[s].ptr = p /\ table'[s].handle = call[t].handle
          /\ \A u \in Slots \ {s} : table'[u] = table[u]
      BY <1>1, <2>5 DEF IInv, HostShape, Slot
    <3>2. call'[t] = Idle /\ \A u \in Threads \ {t} : call'[u] = call[u]
      BY <1>1, <2>5 DEF IInv, HostShape
    <3>3. \A u \in Slots : table[u].ptr # p
      BY <1>1, <2>5 DEF Mapped
    <3>4. \A u \in Threads : Freeing(u)' => u # t /\ Freeing(u) /\ call[u].slot # s /\ call[u].ptr # p
      BY <1>1, <2>5, <3>2, <3>3, IdleIsProper DEF Freeing, SlotsOK
    <3>5. ASSUME NEW u \in Threads, Freeing(u)'
          PROVE  /\ call'[u].slot \in Slots /\ call'[u].ptr \in Ptrs /\ held'[call'[u].ptr] = NoOne
                 /\ table'[call'[u].slot].ptr = call'[u].ptr /\ table'[call'[u].slot].handle = call'[u].handle
                 /\ call'[u].step = "unuse" => table'[call'[u].slot].refs = 0
      <4>1. u # t /\ Freeing(u) /\ call[u].slot # s /\ call'[u] = call[u] /\ call[u].ptr # p
        BY <3>2, <3>4, <3>5
      <4>2. call[u].slot \in Slots /\ table'[call[u].slot] = table[call[u].slot] /\ call[u].ptr \in Ptrs
        BY <1>1, <3>1, <4>1 DEF SlotsOK
      <4>3. held'[call[u].ptr] = held[call[u].ptr]
        BY <1>1, <2>5, <4>1, <4>2
      <4> QED BY <1>1, <4>1, <4>2, <4>3 DEF SlotsOK
    <3>6. \A u, v \in Threads : Freeing(u)' /\ Freeing(v)' /\ call'[u].slot = call'[v].slot => u = v
      BY <1>1, <3>2, <3>4 DEF SlotsOK
    <3>7. \A u \in Threads : call'[u].op = "exec" => call'[u].slot \in Slots /\ call'[u].ptr \in Ptrs
      BY <1>1, <3>2, IdleIsProper DEF SlotsOK
    <3>8. \A q \in Ptrs : held'[q] # NoOne => q \in Mapped'
      <4> SUFFICES ASSUME NEW q \in Ptrs, held'[q] # NoOne PROVE q \in Mapped'
        OBVIOUS
      <4>1. CASE q = p
        BY <1>1, <3>1, <4>1 DEF Mapped
      <4>2. CASE q # p
        <5>1. PICK u \in Slots : table[u].ptr = q
          BY <1>1, <2>5, <4>2 DEF SlotsOK, Mapped
        <5>2. u # s
          BY <1>1, <2>5, <5>1
        <5> QED BY <1>1, <3>1, <5>1, <5>2 DEF Mapped
      <4> QED BY <4>1, <4>2
    <3>9. call[t].handle <= handles
      BY <1>1 DEF CallOK
    <3>10. /\ \A u \in Slots : table'[u].handle <= handles'
           /\ \A u, v \in Slots : table'[u].ptr = table'[v].ptr /\ table'[u].ptr # NoPtr => u = v
      BY <1>1, <3>1, <3>3, <3>9 DEF SlotsOK
    <3> QED BY <3>5, <3>6, <3>7, <3>8, <3>10 DEF SlotsOK
  <2> QED BY <1>7, <2>3, <2>4, <2>5, InsertEffect
<1>8. ASSUME NEW t \in Threads, Release(t)
      PROVE  SlotsOK'
  <2> DEFINE s == call[t].slot
  <2>1. call[t].op = "exec" /\ held' = held /\ call' = [call EXCEPT ![t] = Idle]
    BY <1>1, <1>8 DEF Release, history, CallOK, Proper
  <2>2. /\ s \in Slots /\ call[t].ptr \in Mapped /\ SlotOf(call[t].ptr) = s /\ table[s].refs # 0
    BY <2>1, LaunchHas
  <2>3. table' = [table EXCEPT ![s].refs = @ - 1]
    BY <1>8, <2>2 DEF Release
  <2> HIDE DEF s
  <2>4. \A u \in Slots : /\ table'[u].ptr = table[u].ptr /\ table'[u].handle = table[u].handle
                         /\ u # s => table'[u] = table[u]
    BY <1>1, <2>2, <2>3 DEF IInv, HostShape, Slot
  <2>5. Mapped' = Mapped
    BY <2>4 DEF Mapped
  <2>6. call'[t] = Idle /\ \A u \in Threads \ {t} : call'[u] = call[u]
    BY <1>1, <2>1 DEF IInv, HostShape
  <2>7. \A u \in Threads : Freeing(u)' => u # t /\ Freeing(u) /\ (call[u].step = "unuse" => call[u].slot # s)
    BY <1>1, <2>2, <2>6, IdleIsProper DEF Freeing, SlotsOK
  <2>8. \A u \in Threads : Freeing(u)' =>
         /\ call'[u].slot \in Slots /\ call'[u].ptr \in Ptrs /\ held'[call'[u].ptr] = NoOne
         /\ table'[call'[u].slot].ptr = call'[u].ptr /\ table'[call'[u].slot].handle = call'[u].handle
         /\ call'[u].step = "unuse" => table'[call'[u].slot].refs = 0
    BY <1>1, <2>1, <2>4, <2>6, <2>7 DEF SlotsOK
  <2>9. \A u, v \in Threads : Freeing(u)' /\ Freeing(v)' /\ call'[u].slot = call'[v].slot => u = v
    BY <1>1, <2>6, <2>7 DEF SlotsOK
  <2>10. \A u \in Threads : call'[u].op = "exec" => call'[u].slot \in Slots /\ call'[u].ptr \in Ptrs
    BY <1>1, <2>6, IdleIsProper DEF SlotsOK
  <2>11. \A u \in Slots : table'[u].handle <= handles'
    BY <1>1, <2>4
  <2> QED BY <1>1, <2>1, <2>4, <2>5, <2>8, <2>9, <2>10, <2>11 DEF SlotsOK
<1>9. ASSUME UNCHANGED <<table, held>>, \A t \in Threads : call'[t] = call[t]
      PROVE  SlotsOK'
  BY <1>9, SlotsKept
<1>10. CASE Beat
  <2>1. UNCHANGED <<table, held>> /\ (call' = call \/ \E c : call' = [call EXCEPT ![Hb] = c])
    BY <1>10 DEF Beat, history
  <2>2. \A t \in Threads : call'[t] = call[t]
    BY <1>1, <2>1, FabricAssumption DEF IInv, HostShape
  <2> QED BY <1>9, <2>1, <2>2
<1>11. ASSUME NEW k \in Conns, Serve(k)
       PROVE  SlotsOK'
  <2>1. k \in clients /\ req[k] # <<>>
    BY <1>11, ServeEffect
  <2> QED BY <1>9, <1>11, <2>1, ServeEffect, ServedEffect
<1>12. CASE Reconnect \/ (\E k \in Conns : ClientCleanup(k) \/ Cut(k)) \/ Restart \/ UNCHANGED fabric
  <2>1. UNCHANGED <<table, held, call>>
    BY <1>12 DEF Reconnect, ClientCleanup, Cut, Restart, fabric, host, history
  <2> QED BY <1>9, <2>1
<1> QED
  BY <1>1, <1>2, <1>3, <1>4, <1>5, <1>6, <1>7, <1>8, <1>10, <1>11, <1>12
  DEF Next, Begin, Locked, Goes, Ends

LEMMA PinsKept ==
  ASSUME IInv, \A s \in Slots : table'[s].refs = table[s].refs,
         \A t \in Threads :
           /\ call'[t].op = "exec" <=> call[t].op = "exec"
           /\ call[t].op = "exec" => /\ call'[t].slot = call[t].slot /\ call'[t].ptr = call[t].ptr
                                     /\ table'[call[t].slot].ptr = table[call[t].slot].ptr
  PROVE  PinsExact'
<1>1. ASSUME NEW s \in Slots
      PROVE  table'[s].refs = Cardinality({t \in Threads : call'[t].op = "exec" /\ call'[t].slot = s})
  <2>1. {t \in Threads : call'[t].op = "exec" /\ call'[t].slot = s}
          = {t \in Threads : call[t].op = "exec" /\ call[t].slot = s}
    OBVIOUS
  <2> QED BY <1>1, <2>1 DEF IInv, PinsExact
<1>2. \A t \in Threads : call'[t].op = "exec" => table'[call'[t].slot].ptr = call'[t].ptr
  BY DEF IInv, PinsExact
<1> QED BY <1>1, <1>2 DEF PinsExact, Slots

LEMMA StepPins == ASSUME ~Careless, IInv, [Next]_fabric PROVE PinsExact'
<1>1. /\ NoOne \notin Threads /\ Threads \subseteq Everyone /\ NoPtr \notin Ptrs /\ IsFiniteSet(Threads)
      /\ \A t \in Threads : call[t] \in Call /\ CallOK(t)
      /\ \A s \in Slots : table[s] \in Slot
      /\ \A t \in Threads : call[t].op = "exec" =>
           call[t].slot \in Slots /\ call[t].ptr \in Ptrs /\ table[call[t].slot].ptr = call[t].ptr
  BY FabricAssumption DEF Everyone, IInv, HostShape, Calls, SlotsOK, PinsExact
<1>2. ASSUME NEW t \in Everyone,
             \/ t \in Threads /\ (Request(t) \/ MemInfo(t) \/ Copy(t) \/ Send(t) \/ MemInfoConnects(t))
             \/ SendFails(t) \/ RecvFails(t) \/ Recv(t)
      PROVE  PinsExact'
  <2>1. table' = table
    BY <1>2, CallEffect
  <2>2. PICK c \in Call : /\ call' = [call EXCEPT ![t] = c]
                          /\ c.op = "exec" <=> call[t].op = "exec"
                          /\ c.op = "exec" => c.slot = call[t].slot /\ c.ptr = call[t].ptr
    BY <1>2, CallEffect
  <2>3. call'[t] = c /\ \A u \in Everyone \ {t} : call'[u] = call[u]
    BY <2>2 DEF IInv, HostShape
  <2> QED BY <1>1, <2>1, <2>2, <2>3, PinsKept
<1>3. ASSUME NEW t \in Threads, Launch(t)
      PROVE  PinsExact'
  <2>1. PICK p \in Mapped, c \in Call :
           /\ call[t] = Idle /\ call' = [call EXCEPT ![t] = c]
           /\ c.op = "exec" /\ c.step = "send" /\ c.ptr = p /\ c.slot = SlotOf(p)
           /\ table' = [table EXCEPT ![SlotOf(p)].refs = @ + 1]
    BY <1>3, LaunchEffect
  <2>2. SlotOf(p) \in Slots /\ table[SlotOf(p)].ptr = p
    BY SlotOfMapped DEF IInv
  <2>3. /\ \A s \in Slots : table'[s].ptr = table[s].ptr /\ (s # SlotOf(p) => table'[s] = table[s])
        /\ table'[SlotOf(p)].refs = table[SlotOf(p)].refs + 1
    BY <1>1, <2>1, <2>2 DEF IInv, HostShape, Slot
  <2>4. call[t].op # "exec" /\ call'[t] = c /\ \A u \in Threads \ {t} : call'[u] = call[u]
    BY <1>1, <2>1, IdleIsProper DEF IInv, HostShape
  <2>5. \A s \in Slots : Pinning(s)' = IF s = SlotOf(p) THEN Pinning(s) \cup {t} ELSE Pinning(s)
    BY <2>1, <2>4 DEF Pinning
  <2>6. IsFiniteSet(Pinning(SlotOf(p))) /\ t \notin Pinning(SlotOf(p))
    BY <1>1, <2>4, FS_Subset DEF Pinning
  <2>7. Cardinality(Pinning(SlotOf(p)) \cup {t}) = Cardinality(Pinning(SlotOf(p))) + 1
    BY <2>6, FS_AddElement
  <2>8. \A s \in Slots : table[s].refs = Cardinality(Pinning(s))
    BY DEF IInv, PinsExact, Pinning
  <2>9. \A s \in Slots : table'[s].refs = Cardinality(Pinning(s)')
    BY <2>2, <2>3, <2>5, <2>7, <2>8
  <2>10. \A u \in Threads : call'[u].op = "exec" => table'[call'[u].slot].ptr = call'[u].ptr
    BY <1>1, <2>1, <2>2, <2>3, <2>4
  <2> QED BY <2>9, <2>10 DEF PinsExact, Pinning, Slots
<1>4. ASSUME NEW t \in Threads, Release(t)
      PROVE  PinsExact'
  <2> DEFINE s == call[t].slot
  <2>1. call[t].op = "exec" /\ call' = [call EXCEPT ![t] = Idle]
    BY <1>1, <1>4 DEF Release, CallOK, Proper
  <2>2. s \in Slots /\ call[t].ptr \in Mapped /\ SlotOf(call[t].ptr) = s
    BY <2>1, LaunchHas
  <2>3. table' = [table EXCEPT ![s].refs = @ - 1]
    BY <1>4, <2>2 DEF Release
  <2>4. t \in Pinning(s)
    BY <2>1 DEF Pinning
  <2> HIDE DEF s
  <2>5. /\ \A u \in Slots : table'[u].ptr = table[u].ptr /\ (u # s => table'[u] = table[u])
        /\ table'[s].refs = table[s].refs - 1
    BY <1>1, <2>2, <2>3 DEF IInv, HostShape, Slot
  <2>6. call'[t].op # "exec" /\ \A u \in Threads \ {t} : call'[u] = call[u]
    BY <1>1, <2>1, IdleIsProper DEF IInv, HostShape
  <2>7. \A u \in Slots : Pinning(u)' = IF u = s THEN Pinning(u) \ {t} ELSE Pinning(u)
    BY <2>6 DEF Pinning, s
  <2>8. IsFiniteSet(Pinning(s))
    BY <1>1, FS_Subset DEF Pinning
  <2>9. Cardinality(Pinning(s) \ {t}) = Cardinality(Pinning(s)) - 1
    BY <2>4, <2>8, FS_RemoveElement
  <2>10. \A u \in Slots : table[u].refs = Cardinality(Pinning(u))
    BY DEF IInv, PinsExact, Pinning
  <2>11. \A u \in Slots : table'[u].refs = Cardinality(Pinning(u)')
    BY <2>2, <2>5, <2>7, <2>9, <2>10
  <2>12. \A u \in Threads : call'[u].op = "exec" => table'[call'[u].slot].ptr = call'[u].ptr
    BY <1>1, <2>5, <2>6
  <2> QED BY <2>11, <2>12 DEF PinsExact, Pinning, Slots
<1>5. ASSUME NEW t \in Threads, NEW c, c.op # "exec", call[t].op # "exec", call' = [call EXCEPT ![t] = c],
             NEW s \in Slots,
             \A u \in Slots : table'[u].refs = table[u].refs /\ (u # s => table'[u] = table[u]),
             table'[s].ptr = table[s].ptr \/ \A u \in Threads : call[u].op = "exec" => call[u].slot # s
      PROVE  PinsExact'
  <2>1. call'[t] = c /\ \A u \in Threads \ {t} : call'[u] = call[u]
    BY <1>1, <1>5 DEF IInv, HostShape
  <2>2. \A u \in Threads : call[u].op = "exec" => table'[call[u].slot].ptr = table[call[u].slot].ptr
    BY <1>1, <1>5
  <2> QED BY <1>5, <2>1, <2>2, PinsKept
<1>6. ASSUME NEW t \in Threads, NEW c, c.op # "exec", call[t].op # "exec", call' = [call EXCEPT ![t] = c],
             table' = table
      PROVE  PinsExact'
  <2>1. call'[t] = c /\ \A u \in Threads \ {t} : call'[u] = call[u]
    BY <1>1, <1>6 DEF IInv, HostShape
  <2> QED BY <1>6, <2>1, PinsKept
<1>7. ASSUME NEW t \in Threads, Free(t)
      PROVE  PinsExact'
  <2>1. PICK c \in Call : call[t] = Idle /\ call' = [call EXCEPT ![t] = c] /\ c.op = "free"
    BY <1>7, FreeEffect
  <2>2. table' = table
    BY <1>7 DEF Free
  <2>3. call[t].op # "exec"
    BY <2>1, IdleIsProper
  <2> QED BY <1>6, <2>1, <2>2, <2>3
<1>8. ASSUME NEW t \in Threads, Spun(t)
      PROVE  PinsExact'
  <2> DEFINE c == [call[t] EXCEPT !.step = "unuse"]
  <2>1. call' = [call EXCEPT ![t] = c] /\ table' = table /\ call[t].op = "free"
    BY <1>1, <1>8 DEF Spun, CallOK, Proper
  <2>2. c.op = "free"
    BY <1>1, <2>1 DEF Call
  <2> HIDE DEF c
  <2> QED BY <1>6, <2>1, <2>2
<1>9. ASSUME NEW t \in Threads, Unuse(t)
      PROVE  PinsExact'
  <2> DEFINE s == call[t].slot
             c == IF link = 0 THEN Idle ELSE At(call[t], "send")
  <2>1. /\ call[t].step = "unuse" /\ call[t].op = "free" /\ call' = [call EXCEPT ![t] = c]
        /\ table' = [table EXCEPT ![s].ptr = NoPtr, ![s].handle = 0]
    BY <1>1, <1>9 DEF Unuse, CallOK, Proper
  <2>2. s \in Slots /\ table[s].refs = 0
    BY <2>1 DEF Freeing, IInv, SlotsOK
  <2>3. c.op # "exec"
    BY <1>1, <2>1, IdleIsProper DEF At, Call
  <2> HIDE DEF c, s
  <2>4. \A u \in Threads : call[u].op = "exec" => call[u].slot # s
    BY <2>2, LaunchHas
  <2>5. \A u \in Slots : table'[u].refs = table[u].refs /\ (u # s => table'[u] = table[u])
    BY <1>1, <2>1, <2>2 DEF IInv, HostShape, Slot
  <2> QED BY <1>5, <2>1, <2>2, <2>3, <2>4, <2>5
<1>10. ASSUME NEW t \in Threads, Insert(t)
       PROVE  PinsExact'
  <2>1. call[t].op # "exec"
    BY <1>10, InsertEffect DEF Mallocs
  <2>2. CASE call' = [call EXCEPT ![t].op = "undo", ![t].step = "send"] /\ UNCHANGED <<table, held>>
    <3> DEFINE c == [call[t] EXCEPT !.op = "undo", !.step = "send"]
    <3>1. c.op = "undo" /\ call' = [call EXCEPT ![t] = c]
      BY <1>1, <2>2 DEF Call
    <3> HIDE DEF c
    <3> QED BY <1>6, <2>1, <2>2, <3>1
  <2>3. Idle.op # "exec"
    BY IdleIsProper
  <2>4. CASE call' = [call EXCEPT ![t] = Idle] /\ UNCHANGED <<table, held>>
    BY <1>6, <2>1, <2>3, <2>4
  <2>5. ASSUME NEW s \in Slots, NEW p \in Ptrs \ Mapped, table[s].ptr = NoPtr,
               table' = [table EXCEPT ![s].ptr = p, ![s].handle = call[t].handle],
               call' = [call EXCEPT ![t] = Idle]
        PROVE  PinsExact'
    <3>1. \A u \in Slots : table'[u].refs = table[u].refs /\ (u # s => table'[u] = table[u])
      BY <1>1, <2>5 DEF IInv, HostShape, Slot
    <3>2. \A u \in Threads : call[u].op = "exec" => call[u].slot # s
      BY <1>1, <2>5
    <3> QED BY <1>5, <2>1, <2>3, <2>5, <3>1, <3>2
  <2> QED BY <1>10, <2>2, <2>4, <2>5, InsertEffect
<1>11. ASSUME table' = table, \A t \in Threads : call'[t] = call[t]
       PROVE  PinsExact'
  BY <1>11, PinsKept
<1>12. CASE Beat
  <2>1. table' = table /\ (call' = call \/ \E c : call' = [call EXCEPT ![Hb] = c])
    BY <1>12 DEF Beat
  <2>2. \A t \in Threads : call'[t] = call[t]
    BY <1>1, <2>1, FabricAssumption DEF IInv, HostShape
  <2> QED BY <1>11, <2>1, <2>2
<1>13. ASSUME NEW k \in Conns, Serve(k)
       PROVE  PinsExact'
  <2>1. k \in clients /\ req[k] # <<>>
    BY <1>13, ServeEffect
  <2> QED BY <1>11, <1>13, <2>1, ServeEffect, ServedEffect
<1>14. CASE Reconnect \/ (\E k \in Conns : ClientCleanup(k) \/ Cut(k)) \/ Restart \/ UNCHANGED fabric
  <2>1. UNCHANGED <<table, call>>
    BY <1>14 DEF Reconnect, ClientCleanup, Cut, Restart, fabric, host
  <2> QED BY <1>11, <2>1
<1> QED
  BY <1>1, <1>2, <1>3, <1>4, <1>7, <1>8, <1>9, <1>10, <1>12, <1>13, <1>14
  DEF Next, Begin, Locked, Goes, Ends

-----------------------------------------------------------------------------
(* The accounts of the feeder. *)

\* A client has in its group what it has in the table of blocks.
Counted(k) == IF k \in DOMAIN group THEN group[k] ELSE 0

LEMMA StepAccounts == ASSUME IInv, [Next]_fabric PROVE AccountsExact'
<1>1. FeederShape /\ FeederShape' /\ \A k \in clients : Cardinality(Swept(k)) = Counted(k)
  BY StepFeeder DEF IInv, AccountsExact, Counted
<1>2. SUFFICES ASSUME NEW x \in clients' PROVE Cardinality(Swept(x)') = Counted(x)'
  BY <1>1 DEF FeederShape, AccountsExact, Counted
<1>3. ASSUME x \in clients, Swept(x)' = Swept(x), Counted(x)' = Counted(x)
      PROVE  Cardinality(Swept(x)') = Counted(x)'
  BY <1>1, <1>3
<1>4. CASE UNCHANGED feeder
  BY <1>3, <1>4 DEF feeder, Swept, Counted
<1>5. ASSUME NEW first \in Seq(Msg), Opened(first)
      PROVE  Cardinality(Swept(x)') = Counted(x)'
  <2>1. clients' = clients \cup {link'} /\ link' \notin Conns /\ UNCHANGED <<block, group>>
    BY <1>5, OpenedEffect
  <2>2. CASE x \in clients
    BY <1>3, <2>1, <2>2 DEF Swept, Counted
  <2>3. CASE x = link'
    <3>1. x \notin DOMAIN group' /\ Swept(x)' = {}
      BY <1>1, <2>1, <2>3 DEF FeederShape, Swept
    <3> QED BY <3>1, FS_EmptySet DEF Counted
  <2> QED BY <2>1, <2>2, <2>3
<1>6. ASSUME NEW k \in Conns, Serve(k)
      PROVE  Cardinality(Swept(x)') = Counted(x)'
  <2>1. k \in clients /\ req[k] # <<>>
    BY <1>6, ServeEffect
  <2>2. PICK ok \in BOOLEAN, h \in Nat, v \in Datum :
          /\ Served(k, Next1(k), ok, h, v)
          /\ SameBlocks(k, h) \/ MoreBlocks(k, ok, h) \/ FewerBlocks(k, h)
    BY <1>6, ServeEffect
  <2>3. x \in clients
    BY <2>1, <2>2, ServedEffect
  <2>4. CASE SameBlocks(k, h)
    BY <1>3, <2>3, <2>4 DEF SameBlocks, Swept, Counted
  <2>5. CASE MoreBlocks(k, ok, h)
    <3>1. /\ h \notin DOMAIN block /\ DOMAIN block' = DOMAIN block \cup {h} /\ block'[h].owner = k
          /\ \A y \in DOMAIN block : block'[y] = block[y]
      BY <1>1, <2>5 DEF MoreBlocks, Put, FeederShape
    <3>2. /\ group'[k] = Counted(k) + 1 /\ DOMAIN group' = DOMAIN group \cup {k}
          /\ \A y \in DOMAIN group \ {k} : group'[y] = group[y]
      BY <2>5 DEF MoreBlocks, Put, Counted
    <3>3. CASE x # k
      <4>1. Swept(x)' = Swept(x)
        BY <3>1, <3>3 DEF Swept
      <4> QED BY <1>3, <2>3, <3>2, <3>3, <4>1 DEF Counted
    <3>4. CASE x = k
      <4>1. Swept(x)' = Swept(x) \cup {h} /\ h \notin Swept(x)
        BY <3>1, <3>4 DEF Swept
      <4>2. IsFiniteSet(Swept(x))
        BY <1>1, FS_Subset DEF FeederShape, Swept
      <4>3. Cardinality(Swept(x)') = Cardinality(Swept(x)) + 1
        BY <4>1, <4>2, FS_AddElement
      <4>4. Counted(x)' = Counted(x) + 1
        BY <3>2, <3>4 DEF Counted
      <4> QED BY <1>1, <2>3, <4>3, <4>4
    <3> QED BY <3>3, <3>4
  <2>6. CASE FewerBlocks(k, h)
    <3> DEFINE g == Next1(k).handle
               o == block[g].owner
    <3>1. /\ g \in DOMAIN block /\ DOMAIN block' = DOMAIN block \ {g}
          /\ \A y \in DOMAIN block' : block'[y] = block[y]
          /\ group' = [group EXCEPT ![o] = @ - 1] /\ o \in clients
      BY <1>1, <2>6 DEF FewerBlocks, Drop, FeederShape
    <3> HIDE DEF g
    <3>2. CASE x # o
      <4>1. Swept(x)' = Swept(x)
        BY <3>1, <3>2 DEF Swept
      <4>2. Counted(x)' = Counted(x)
        BY <3>1, <3>2 DEF Counted
      <4> QED BY <1>3, <2>3, <4>1, <4>2
    <3>3. CASE x = o
      <4>1. Swept(x)' = Swept(x) \ {g} /\ g \in Swept(x)
        BY <3>1, <3>3 DEF Swept
      <4>2. IsFiniteSet(Swept(x))
        BY <1>1, FS_Subset DEF FeederShape, Swept
      <4>3. Cardinality(Swept(x)') = Cardinality(Swept(x)) - 1
        BY <4>1, <4>2, FS_RemoveElement
      <4>4. Cardinality(Swept(x)) # 0
        BY <4>1, <4>2, FS_EmptySet
      <4>5. x \in DOMAIN group
        BY <1>1, <2>3, <4>4 DEF Counted
      <4>6. Counted(x)' = Counted(x) - 1
        BY <3>1, <3>3, <4>5 DEF Counted
      <4> QED BY <1>1, <2>3, <4>3, <4>6
    <3> QED BY <3>2, <3>3
  <2> QED BY <2>2, <2>4, <2>5, <2>6
<1>7. ASSUME NEW k \in Conns, ClientCleanup(k)
      PROVE  Cardinality(Swept(x)') = Counted(x)'
  <2>1. /\ DOMAIN block' = DOMAIN block \ Swept(k) /\ \A y \in DOMAIN block' : block'[y] = block[y]
        /\ DOMAIN group' = DOMAIN group \ {k} /\ \A y \in DOMAIN group' : group'[y] = group[y]
        /\ x \in clients /\ x # k
    BY <1>7 DEF ClientCleanup, Drop
  <2>2. Swept(x)' = Swept(x)
    BY <2>1 DEF Swept
  <2>3. Counted(x)' = Counted(x)
    BY <2>1 DEF Counted
  <2> QED BY <1>3, <2>1, <2>2, <2>3
<1>8. CASE Restart
  BY <1>8 DEF Restart
<1> QED BY <1>4, <1>5, <1>6, <1>7, <1>8, FeederFrame

-----------------------------------------------------------------------------
(* A block of the live connection is in the table, in hand, or an orphan. *)

Tabled(h) == \E s \in Slots : table[s].ptr # NoPtr /\ table[s].handle = h
Taken(h) == \E t \in Threads : call[t].handle = h /\ call[t].op \in {"malloc", "malloc_tier", "undo", "free"}
Coming(h) == \E i \in 1 .. Len(resp[link]) : resp[link][i].handle = h

\* No block of the connection comes, and none that was accounted for stops being so.
LEMMA LostKept ==
  ASSUME IInv, link' = link, Alive(link)' => Alive(link),
         Alive(link) =>
           \A h \in DOMAIN block' : block'[h].owner = link =>
             /\ h \in DOMAIN block /\ block[h].owner = link
             /\ Tabled(h) => (Tabled(h) \/ Taken(h) \/ Coming(h) \/ h \in orphans)'
             /\ Taken(h) => (Tabled(h) \/ Taken(h) \/ Coming(h) \/ h \in orphans)'
             /\ Coming(h) => (Tabled(h) \/ Taken(h) \/ Coming(h) \/ h \in orphans)'
             /\ h \in orphans => h \in orphans'
  PROVE  NothingLost'
<1> SUFFICES ASSUME Alive(link)', NEW h \in DOMAIN block', block'[h].owner = link'
             PROVE  (Tabled(h) \/ Taken(h) \/ Coming(h) \/ h \in orphans)'
  BY DEF NothingLost, InHand, Tabled, Taken, Coming
<1>1. Tabled(h) \/ Taken(h) \/ Coming(h) \/ h \in orphans
  BY DEF IInv, NothingLost, InHand, Tabled, Taken, Coming
<1> QED BY <1>1

\* One call changes, and nothing is taken from it.
LEMMA LostCall ==
  ASSUME IInv, UNCHANGED <<link, net, resp, block, orphans>>,
         \A s \in Slots : table'[s].ptr = table[s].ptr /\ table'[s].handle = table[s].handle,
         \A t \in Threads : call[t].op \in {"malloc", "malloc_tier", "undo", "free"} =>
           call'[t].handle = call[t].handle /\ call'[t].op \in {"malloc", "malloc_tier", "undo", "free"}
  PROVE  NothingLost'
<1>1. Alive(link)' => Alive(link)
  BY DEF Alive
<1>2. \A h : Tabled(h) => Tabled(h)'
  BY DEF Tabled, Slots
<1>3. \A h : Taken(h) => Taken(h)'
  BY DEF Taken
<1>4. \A h : Coming(h) => Coming(h)'
  BY DEF Coming
<1> QED BY <1>1, <1>2, <1>3, <1>4, LostKept

LEMMA StepLost == ASSUME ~Careless, IInv, [Next]_fabric PROVE NothingLost'
<1> DEFINE Hold == {"malloc", "malloc_tier", "undo", "free"}
<1>1. /\ Hb \notin Threads /\ Threads \subseteq Everyone
      /\ \A t \in Threads : call[t] \in Call /\ CallOK(t)
      /\ \A s \in Slots : table[s] \in Slot
      /\ \A h \in DOMAIN block : h > 0 /\ block[h].owner \in Conns
  BY FabricAssumption DEF Everyone, IInv, HostShape, Calls, FeederShape
<1>2. ASSUME ~Alive(link)'
      PROVE  NothingLost'
  BY <1>2 DEF NothingLost
<1>3. ASSUME NEW t \in Everyone, NEW c, call' = [call EXCEPT ![t] = c],
             UNCHANGED <<link, net, resp, block, orphans>>, t \in Threads => call[t].op \notin Hold,
             \A s \in Slots : table'[s].ptr = table[s].ptr /\ table'[s].handle = table[s].handle
      PROVE  NothingLost'
  <2>1. \A u \in Threads : u # t => call'[u] = call[u]
    BY <1>1, <1>3 DEF IInv, HostShape
  <2> QED BY <1>3, <2>1, LostCall
<1>4. ASSUME NEW t \in Threads, NEW c, call' = [call EXCEPT ![t] = c],
             UNCHANGED <<link, net, resp, block, orphans>>,
             c.handle = call[t].handle, call[t].op \in Hold => c.op \in Hold,
             \A s \in Slots : table'[s].ptr = table[s].ptr /\ table'[s].handle = table[s].handle
      PROVE  NothingLost'
  <2>1. call'[t] = c /\ \A u \in Threads : u # t => call'[u] = call[u]
    BY <1>1, <1>4 DEF IInv, HostShape
  <2> QED BY <1>4, <2>1, LostCall
<1>5. ASSUME NEW t \in Threads, Begin(t)
      PROVE  NothingLost'
  <2>1. UNCHANGED <<link, net, resp, block, orphans>>
    BY <1>5 DEF Begin, Request, MemInfo, Copy, Launch, Free, wire, feeder, history
  <2>2. (\E c : call' = [call EXCEPT ![t] = c]) /\ call[t] = Idle
    BY <1>5 DEF Begin, Request, MemInfo, Copy, Launch, Free, Starts
  <2>3. \A s \in Slots : table'[s].ptr = table[s].ptr /\ table'[s].handle = table[s].handle
    <3>1. CASE Launch(t)
      <4>1. PICK p \in Mapped : table' = [table EXCEPT ![SlotOf(p)].refs = @ + 1]
        BY <3>1, LaunchEffect
      <4>2. SlotOf(p) \in Slots
        BY SlotOfMapped DEF IInv
      <4> QED BY <1>1, <4>1, <4>2 DEF IInv, HostShape, Slot
    <3>2. CASE ~Launch(t)
      BY <1>5, <3>2 DEF Begin, Request, MemInfo, Copy, Free
    <3> QED BY <3>1, <3>2
  <2>4. call[t].op \notin Hold
    BY <2>2, IdleIsProper
  <2> QED BY <1>1, <1>3, <2>1, <2>2, <2>3, <2>4
<1>6. ASSUME NEW t \in Threads, Spun(t)
      PROVE  NothingLost'
  <2> DEFINE c == [call[t] EXCEPT !.step = "unuse"]
  <2>1. call' = [call EXCEPT ![t] = c] /\ table' = table /\ UNCHANGED <<link, net, resp, block, orphans>>
    BY <1>1, <1>6 DEF Spun, wire, feeder, history
  <2>2. c.handle = call[t].handle /\ c.op = call[t].op
    BY <1>1 DEF Call
  <2> HIDE DEF c
  <2> QED BY <1>4, <2>1, <2>2
<1>7. ASSUME NEW t \in Threads, Unuse(t)
      PROVE  NothingLost'
  <2>1. CASE link = 0
    BY <1>2, <1>7, <2>1 DEF Unuse, Alive
  <2>2. CASE link # 0
    <3> DEFINE c == [call[t] EXCEPT !.step = "send"]
               s == call[t].slot
    <3>1. /\ call[t].step = "unuse" /\ call[t].op = "free" /\ call' = [call EXCEPT ![t] = c]
          /\ table' = [table EXCEPT ![s].ptr = NoPtr, ![s].handle = 0]
          /\ UNCHANGED <<link, net, resp, block, orphans>>
      BY <1>1, <1>7, <2>2 DEF Unuse, At, wire, feeder, history, CallOK, Proper
    <3>2. s \in Slots /\ table[s].handle = call[t].handle
      BY <3>1 DEF Freeing, IInv, SlotsOK
    <3>3. c.handle = call[t].handle /\ c.op = "free"
      BY <1>1, <3>1 DEF Call
    <3> HIDE DEF c, s
    <3>4. call'[t] = c /\ \A u \in Threads : u # t => call'[u] = call[u]
      BY <1>1, <3>1 DEF IInv, HostShape
    <3>5. \A u \in Slots \ {s} : table'[u] = table[u]
      BY <1>1, <3>1, <3>2 DEF IInv, HostShape
    <3>6. \A h : Taken(h) => Taken(h)'
      BY <3>3, <3>4 DEF Taken
    <3>7. \A h : Tabled(h) => Tabled(h)' \/ Taken(h)'
      <4> SUFFICES ASSUME NEW h, NEW u \in Slots, table[u].ptr # NoPtr, table[u].handle = h
                   PROVE  Tabled(h)' \/ Taken(h)'
        BY DEF Tabled
      <4>1. CASE u = s
        BY <3>2, <3>3, <3>4, <4>1 DEF Taken
      <4>2. CASE u # s
        BY <3>5, <4>2 DEF Tabled, Slots
      <4> QED BY <4>1, <4>2
    <3>8. Alive(link)' => Alive(link)
      BY <3>1 DEF Alive
    <3>9. \A h : Coming(h) => Coming(h)'
      BY <3>1 DEF Coming
    <3> QED BY <3>1, <3>6, <3>7, <3>8, <3>9, LostKept
  <2> QED BY <2>1, <2>2
<1>8. ASSUME NEW t \in Threads, Insert(t)
      PROVE  NothingLost'
  <2>1. call[t].step = "insert" /\ call[t].op \in Mallocs /\ UNCHANGED <<link, net, resp, block>>
    BY <1>8, InsertEffect
  <2>2. CASE call' = [call EXCEPT ![t].op = "undo", ![t].step = "send"] /\ UNCHANGED <<table, held, orphans>>
    <3> DEFINE c == [call[t] EXCEPT !.op = "undo", !.step = "send"]
    <3>1. c.op = "undo" /\ c.handle = call[t].handle /\ call' = [call EXCEPT ![t] = c]
      BY <1>1, <2>2 DEF Call
    <3> HIDE DEF c
    <3> QED BY <1>4, <2>1, <2>2, <3>1
  <2>3. /\ Alive(link)' => Alive(link)
        /\ \A h : Coming(h) => Coming(h)'
    BY <2>1 DEF Alive, Coming
  <2>4. ASSUME call' = [call EXCEPT ![t] = Idle]
        PROVE  \A h : Taken(h) => Taken(h)' \/ h = call[t].handle
    <3>1. \A u \in Threads : u # t => call'[u] = call[u]
      BY <1>1, <2>4 DEF IInv, HostShape
    <3> QED BY <3>1 DEF Taken
  <2>5. CASE /\ orphans' = orphans \cup ({call[t].handle} \cap DOMAIN block)
             /\ call' = [call EXCEPT ![t] = Idle]
             /\ UNCHANGED <<table, held>>
    <3>1. \A h : Tabled(h) => Tabled(h)'
      BY <2>5 DEF Tabled
    <3>2. \A h \in DOMAIN block : Taken(h) => Taken(h)' \/ h \in orphans'
      BY <2>4, <2>5
    <3> QED BY <2>1, <2>3, <2>5, <3>1, <3>2, LostKept
  <2>6. ASSUME NEW s \in Slots, NEW p \in Ptrs \ Mapped, table[s].ptr = NoPtr,
               table' = [table EXCEPT ![s].ptr = p, ![s].handle = call[t].handle],
               call' = [call EXCEPT ![t] = Idle], UNCHANGED orphans
        PROVE  NothingLost'
    <3>1. /\ table'[s].ptr = p /\ table'[s].handle = call[t].handle
          /\ \A u \in Slots \ {s} : table'[u] = table[u]
      BY <1>1, <2>6 DEF IInv, HostShape, Slot
    <3>2. \A h : Tabled(h) => Tabled(h)'
      BY <2>6, <3>1 DEF Tabled, Slots
    <3>3. \A h : h = call[t].handle => Tabled(h)'
      BY <3>1, FabricAssumption DEF Tabled, Slots
    <3>4. \A h : Taken(h) => Taken(h)' \/ Tabled(h)'
      BY <2>4, <2>6, <3>3
    <3> QED BY <2>1, <2>3, <2>6, <3>2, <3>4, LostKept
  <2> QED BY <1>8, <2>2, <2>5, <2>6, InsertEffect
<1>9. ASSUME NEW t \in Threads, Release(t)
      PROVE  NothingLost'
  <2>1. /\ call[t].op = "exec" /\ call' = [call EXCEPT ![t] = Idle]
        /\ UNCHANGED <<link, net, resp, block, orphans>>
    BY <1>1, <1>9 DEF Release, wire, feeder, history, CallOK, Proper
  <2>2. call[t].slot \in Slots /\ table' = [table EXCEPT ![call[t].slot].refs = @ - 1]
    BY <1>9, <2>1, LaunchHas DEF Release
  <2>3. \A s \in Slots : table'[s].ptr = table[s].ptr /\ table'[s].handle = table[s].handle
    BY <1>1, <2>2 DEF IInv, HostShape, Slot
  <2> QED BY <1>1, <1>3, <2>1, <2>3
<1>10. ASSUME NEW t \in Threads, Send(t)
       PROVE  NothingLost'
  <2> DEFINE c == [call[t] EXCEPT !.step = "recv"]
  <2>1. /\ table' = table /\ UNCHANGED <<link, net, resp, block, orphans>>
        /\ \/ call' = [call EXCEPT ![t] = Idle] /\ call[t].op = "note"
           \/ call' = [call EXCEPT ![t] = c]
    BY <1>1, <1>10 DEF Send, feeder, history
  <2>2. c.handle = call[t].handle /\ c.op = call[t].op
    BY <1>1 DEF Call
  <2> HIDE DEF c
  <2> QED BY <1>1, <1>3, <1>4, <2>1, <2>2
<1>11. ASSUME NEW t \in Everyone, SendFails(t) \/ RecvFails(t)
       PROVE  NothingLost'
  <2>1. link' = 0 \/ (link' = link /\ net' = net)
    BY <1>11, FailedEffect DEF SendFails, RecvFails
  <2>2. ~Alive(link)
    BY <1>11 DEF SendFails, RecvFails, Alive
  <2>3. ~Alive(link)'
    BY <2>1, <2>2 DEF Alive
  <2> QED BY <1>2, <2>3
<1>12. ASSUME NEW t \in Everyone, Recv(t)
       PROVE  NothingLost'
  <2> DEFINE r == resp[link][1]
             c == Heard(call[t], r)
  <2>1. /\ link # 0 /\ lock = t /\ resp[link] # <<>> /\ r \in Answer /\ call' = [call EXCEPT ![t] = c]
        /\ UNCHANGED <<link, table, net, block, orphans>>
    BY <1>12, RecvEffect DEF feeder
  <2>2. /\ Len(resp[link]) <= 1 /\ (r.handle # 0 => r.ok /\ call[t].op \in Mallocs)
        /\ (call[t].op \in Frees => call[t].handle \notin DOMAIN block)
        /\ call[t].step = "recv" /\ call[t] \in Call /\ CallOK(t)
    BY <2>1 DEF IInv, Wired, RespOK, Calls, CallOK, HostShape
  <2>3. \A h \in DOMAIN block : Coming(h) => Taken(h)'
    <3> SUFFICES ASSUME NEW h \in DOMAIN block, Coming(h) PROVE Taken(h)'
      OBVIOUS
    <3>1. r.handle = h
      <4>1. resp[link] \in Seq(Answer)
        BY <2>1 DEF IInv, HostShape, WireShape
      <4>2. Len(resp[link]) \in Nat
        BY <4>1
      <4> QED BY <2>2, <4>2 DEF Coming
    <3>2. r.ok /\ call[t].op \in Mallocs /\ t \in Threads
      <4>1. r.handle # 0
        BY <1>1, <3>1
      <4> QED BY <2>2, <4>1 DEF CallOK, Mallocs, Everyone
    <3>3. c.step = "insert"
      BY <2>1, <2>2, <3>2, HeardIs
    <3>4. c.handle = h /\ c.op = call[t].op
      BY <2>1, <2>2, <3>1, <3>3, HeardIs
    <3>5. call'[t] = c
      BY <2>1 DEF IInv, HostShape
    <3> HIDE DEF c
    <3> QED BY <3>2, <3>4, <3>5 DEF Taken, Mallocs
  <2>4. \A h \in DOMAIN block : Taken(h) => Taken(h)'
    <3> SUFFICES ASSUME NEW h \in DOMAIN block, NEW u \in Threads, call[u].handle = h, call[u].op \in Hold
                 PROVE  Taken(h)'
      BY DEF Taken
    <3>1. u # t
      BY <1>1, <2>2 DEF CallOK, Proper, Mallocs, Frees
    <3>2. call'[u] = call[u]
      BY <1>1, <2>1, <3>1 DEF IInv, HostShape
    <3> QED BY <3>2 DEF Taken
  <2>5. Alive(link)' => Alive(link)
    BY <2>1 DEF Alive
  <2>6. \A h : Tabled(h) => Tabled(h)'
    BY <2>1 DEF Tabled
  <2> HIDE DEF r, c
  <2> QED BY <2>1, <2>3, <2>4, <2>5, <2>6, LostKept
<1>13. ASSUME NEW first \in Seq(Msg), Opened(first)
       PROVE  NothingLost'
  <2>1. link' \notin Conns /\ block' = block
    BY <1>13, OpenedEffect
  <2> QED BY <1>1, <2>1 DEF NothingLost
<1>14. CASE Reconnect
  <2>1. <<>> \in Seq(Msg)
    OBVIOUS
  <2> QED BY <1>13, <1>14, <2>1 DEF Reconnect
<1>15. ASSUME NEW t \in Threads, MemInfoConnects(t)
       PROVE  NothingLost'
  <2>1. CASE Opened(<<Message(t)>>)
    BY <1>13, <2>1, MessageIs
  <2>2. CASE UNCHANGED link
    BY <1>2, <1>15, <2>2 DEF MemInfoConnects, Alive
  <2> QED BY <1>15, <2>1, <2>2 DEF MemInfoConnects
<1>16. CASE Beat
  <2>1. CASE net[link] = "up"
    <3>1. UNCHANGED <<link, net, resp, block, orphans, table>> /\ \E c : call' = [call EXCEPT ![Hb] = c]
      BY <1>16, <2>1 DEF Beat, feeder, history
    <3>2. Hb \in Everyone
      BY DEF Everyone
    <3> QED BY <1>1, <1>3, <3>1, <3>2
  <2>2. CASE net[link] # "up"
    <3>1. link' = 0
      BY <1>16, <2>2 DEF Beat, Closes, Idle
    <3> QED BY <1>2, <3>1 DEF Alive
  <2> QED BY <2>1, <2>2
<1>17. ASSUME NEW k \in Conns, Serve(k)
       PROVE  NothingLost'
  <2>1. k \in clients /\ req[k] # <<>>
    BY <1>17, ServeEffect
  <2>2. PICK ok \in BOOLEAN, h \in Nat, v \in Datum :
          /\ Served(k, Next1(k), ok, h, v)
          /\ SameBlocks(k, h) \/ MoreBlocks(k, ok, h) \/ FewerBlocks(k, h)
    BY <1>17, ServeEffect
  <2> DEFINE a == [of |-> Next1(k).of, ok |-> ok, handle |-> h, val |-> v]
  <2>3. /\ UNCHANGED <<link, table, call, net, orphans>>
        /\ \/ resp' = resp /\ (net[k] = "cut" \/ ~Answered(Next1(k)))
           \/ /\ net[k] = "up" /\ Answered(Next1(k)) /\ a \in Answer
              /\ resp' = [resp EXCEPT ![k] = Append(@, a)]
    BY <2>1, <2>2, ServedEffect
  <2> HIDE DEF a
  <2>4. Alive(link)' <=> Alive(link)
    BY <2>3 DEF Alive
  <2>5. \A x : (Tabled(x) => Tabled(x)') /\ (Taken(x) => Taken(x)')
    BY <2>3 DEF Tabled, Taken
  <2>6. ASSUME link # 0
        PROVE  \A x : Coming(x) => Coming(x)'
    <3>1. link \in Conns /\ resp[link] \in Seq(Answer) /\ resp \in [Conns -> Seq(Answer)]
      BY <2>6 DEF IInv, HostShape, WireShape
    <3>2. CASE resp'[link] = resp[link]
      BY <2>3, <3>2 DEF Coming
    <3>3. CASE resp'[link] = Append(resp[link], a) /\ a \in Answer
      <4>1. /\ Len(resp'[link]) = Len(resp[link]) + 1 /\ Len(resp[link]) \in Nat
            /\ \A i \in 1 .. Len(resp[link]) : resp'[link][i] = resp[link][i]
        BY <3>1, <3>3, AppendProperties
      <4> QED BY <2>3, <4>1 DEF Coming
    <3> QED BY <2>3, <3>1, <3>2, <3>3
  <2>7. CASE SameBlocks(k, h)
    BY <2>3, <2>4, <2>5, <2>6, <2>7, LostKept DEF SameBlocks, Alive
  <2>8. CASE FewerBlocks(k, h)
    <3>1. DOMAIN block' \subseteq DOMAIN block /\ \A x \in DOMAIN block' : block'[x] = block[x]
      BY <2>8 DEF FewerBlocks, Drop
    <3> QED BY <2>3, <2>4, <2>5, <2>6, <3>1, LostKept DEF Alive
  <2>9. CASE MoreBlocks(k, ok, h)
    <3>1. /\ DOMAIN block' = DOMAIN block \cup {h} /\ block'[h].owner = k
          /\ \A x \in DOMAIN block \ {h} : block'[x] = block[x]
      BY <2>9 DEF MoreBlocks, Put
    <3>2. h \notin DOMAIN block
      BY <2>9 DEF MoreBlocks, IInv, FeederShape
    <3>3. Next1(k).op = "malloc"
      BY <2>9 DEF MoreBlocks
    <3> SUFFICES ASSUME Alive(link)', NEW x \in DOMAIN block', block'[x].owner = link'
                 PROVE  (Tabled(x) \/ Taken(x) \/ Coming(x) \/ x \in orphans)'
      BY DEF NothingLost, InHand, Tabled, Taken, Coming
    <3>4. link # 0 /\ net[link] = "up"
      BY <2>3, <2>4 DEF Alive
    <3>5. CASE x # h
      <4>1. Tabled(x) \/ Taken(x) \/ Coming(x) \/ x \in orphans
        BY <2>3, <2>4, <3>1, <3>5 DEF IInv, NothingLost, InHand, Tabled, Taken, Coming
      <4> QED BY <2>3, <2>5, <2>6, <3>4, <4>1
    <3>6. CASE x = h
      <4>1. k = link /\ resp[k] \in Seq(Answer) /\ k \in Conns
        BY <2>3, <3>1, <3>6 DEF IInv, WireShape
      <4>2. resp'[k] = Append(resp[k], a) /\ a \in Answer
        BY <2>3, <3>3, <3>4, <4>1 DEF Answered, IInv, WireShape
      <4>3. /\ Len(resp'[k]) = Len(resp[k]) + 1 /\ Len(resp[k]) \in Nat
            /\ resp'[k][Len(resp[k]) + 1] = a
        BY <4>1, <4>2, AppendProperties
      <4>4. a.handle = h
        BY DEF a
      <4>5. Len(resp[k]) + 1 \in 1 .. Len(resp'[k])
        BY <4>3
      <4> QED BY <2>3, <3>6, <4>1, <4>3, <4>4, <4>5 DEF Coming
    <3> QED BY <3>5, <3>6
  <2> QED BY <2>2, <2>7, <2>8, <2>9
<1>18. ASSUME NEW k \in Conns, ClientCleanup(k)
       PROVE  NothingLost'
  <2>1. /\ UNCHANGED <<link, table, call, resp>> /\ net' = [net EXCEPT ![k] = "cut"]
        /\ DOMAIN block' = DOMAIN block \ Swept(k) /\ (\A h \in DOMAIN block' : block'[h] = block[h])
        /\ orphans' = orphans \ Swept(k)
    BY <1>18 DEF ClientCleanup, host, Drop
  <2>2. Alive(link)' => Alive(link)
    BY <2>1 DEF Alive, Conns, IInv, HostShape, WireShape
  <2>3. \A h : (Tabled(h) => Tabled(h)') /\ (Taken(h) => Taken(h)') /\ (Coming(h) => Coming(h)')
    BY <2>1 DEF Tabled, Taken, Coming
  <2>4. \A h \in DOMAIN block' : h \in orphans => h \in orphans'
    BY <2>1
  <2> QED BY <2>1, <2>2, <2>3, <2>4, LostKept
<1>19. ASSUME NEW k \in Conns, Cut(k)
       PROVE  NothingLost'
  <2>1. /\ UNCHANGED <<link, table, call, block, orphans>> /\ net' = [net EXCEPT ![k] = "cut"]
        /\ resp' = resp \/ resp' = [resp EXCEPT ![k] = <<>>]
    BY <1>19 DEF Cut, host, feeder, history
  <2>2. CASE k = link
    <3>1. ~Alive(link)'
      BY <2>1, <2>2 DEF Alive, IInv, WireShape, Conns
    <3> QED BY <1>2, <3>1
  <2>3. CASE k # link
    <3>1. (Alive(link)' => Alive(link)) /\ (link # 0 => resp'[link] = resp[link])
      BY <2>1, <2>3 DEF Alive, IInv, WireShape, HostShape, Conns
    <3>2. \A h : (Tabled(h) => Tabled(h)') /\ (Taken(h) => Taken(h)')
      BY <2>1 DEF Tabled, Taken
    <3>3. link # 0 => \A h : Coming(h) => Coming(h)'
      BY <2>1, <3>1 DEF Coming
    <3> QED BY <2>1, <3>1, <3>2, <3>3, LostKept DEF Alive
  <2> QED BY <2>2, <2>3
<1>20. CASE Restart
  <2>1. DOMAIN block' = {}
    BY <1>20 DEF Restart
  <2> QED BY <2>1 DEF NothingLost
<1>21. CASE UNCHANGED fabric
  <2>1. UNCHANGED <<link, net, resp, block, orphans, table, call>>
    BY <1>21 DEF fabric, host, wire, feeder, history
  <2> QED BY <2>1, LostCall
<1> QED
  BY <1>1, <1>5, <1>6, <1>7, <1>8, <1>9, <1>10, <1>11, <1>12, <1>14, <1>15, <1>16, <1>17, <1>18, <1>19,
     <1>20, <1>21 DEF Next, Locked, Goes, Ends

-----------------------------------------------------------------------------
LEMMA InitIInv == Init => IInv
<1> SUFFICES ASSUME Init PROVE IInv
  OBVIOUS
<1> USE FabricAssumption DEF Init
<1>1. Conns = {} /\ DOMAIN block = {} /\ DOMAIN group = {} /\ Len(net) = 0
  BY DEF Conns
<1>2. \A t \in Everyone : call[t] = Idle
  OBVIOUS
<1>3. HostShape
  <2>1. [ptr |-> NoPtr, handle |-> 0, refs |-> 0] \in Slot
    BY DEF Slot
  <2> QED BY <2>1, IdleIsCall DEF HostShape
<1>4. WireShape
  BY <1>1 DEF WireShape
<1>5. FeederShape
  BY <1>1, FS_EmptySet DEF FeederShape
<1>6. Calls
  BY <1>2, IdleIsProper DEF Calls, CallOK, Everyone
<1>7. Wired
  BY DEF Wired
<1>8. SlotsOK
  <2>1. \A s \in Slots : table[s].ptr = NoPtr /\ table[s].handle = 0
    OBVIOUS
  <2>2. \A t \in Threads : call[t].op = "idle"
    BY <1>2, IdleIsProper DEF Everyone
  <2> QED BY <2>1, <2>2 DEF SlotsOK, Freeing
<1>9. AccountsExact
  BY <1>1 DEF AccountsExact
<1>10. PinsExact
  <2>1. \A t \in Threads : call[t].op = "idle"
    BY <1>2, IdleIsProper DEF Everyone
  <2>2. \A s \in Slots : {t \in Threads : call[t].op = "exec" /\ call[t].slot = s} = {} /\ table[s].refs = 0
    BY <2>1
  <2>3. Cardinality({}) = 0
    BY FS_EmptySet
  <2> QED BY <2>1, <2>2, <2>3 DEF PinsExact
<1>11. NothingLost
  BY <1>1 DEF NothingLost
<1> QED BY <1>3, <1>4, <1>5, <1>6, <1>7, <1>8, <1>9, <1>10, <1>11 DEF IInv

\* The strengthening is inductive, as long as no kernel is launched on a pointer that is being freed.
THEOREM FabricInvariance == ASSUME ~Careless PROVE Spec => []IInv
<1>1. Init => IInv
  BY InitIInv
<1>2. IInv /\ [Next]_fabric => IInv'
  BY StepHost, StepWireShape, StepFeeder, StepCalls, StepWired, StepSlots, StepAccounts, StepPins, StepLost
  DEF IInv
<1> QED BY <1>1, <1>2, PTL DEF Spec

\* The accounts of both ends agree while the connection is up, responses go to the
\* thread that asked, and slots are pinned by the launches under way.
THEOREM FabricIsExact == ASSUME ~Careless PROVE Spec => []FabricExact
<1>1. IInv => FabricExact
  BY DEF IInv, FabricExact, Wired, RespOK, RepliesPaired
<1> QED BY <1>1, FabricInvariance, PTL

-----------------------------------------------------------------------------
(* What a copy back gives.  A block is followed from its allocation, when   *)
(* nothing names it, to the pointer that gets it, and each write from the   *)
(* thread that sends it to the block, or to the connection it is lost on.   *)

Writes == {"h2d", "memset"}
Copies == Writes \cup {"d2h"}
Members(s) == {s[i] : i \in 1 .. Len(s)}
Sent(k) == Members(req[k])
Used(s) == table[s].ptr # NoPtr
HandleOf(p) == table[SlotOf(p)].handle

HistoryShape == last \in [Ptrs -> Datum] /\ lost \in [Ptrs -> SUBSET Datum]

\* A thread copies to and from a pointer that it has.
CopiesOwn ==
  \A t \in Threads : call[t].op \in Copies =>
    /\ call[t].step \in {"send", "recv"} /\ call[t].ptr \in Ptrs
    /\ held[call[t].ptr] = t /\ call[t].handle = HandleOf(call[t].ptr)

\* No message names a block that is yet to come, and the one that is answered is what the
\* thread that has per_lock has asked.
Asked ==
  /\ \A k \in Conns : \A m \in Sent(k) : m.handle <= handles
  /\ link # 0 /\ net[link] = "up" /\ lock \in Threads =>
       \A m \in Sent(link) : Answered(m) => m = Message(lock)

\* A handle that no slot has and no copy names, of a block that is as it was allocated.
Untouched(h) ==
  /\ \A s \in Slots : Used(s) => table[s].handle # h
  /\ h \in DOMAIN block => block[h].data = Junk
  /\ \A k \in Conns : \A m \in Sent(k) : m.op \in Writes => m.handle # h

\* The thread that has per_lock has been given a block.
Allotted ==
  link # 0 /\ resp[link] # <<>> /\ lock \in Threads /\ call[lock].op \in Mallocs /\ resp[link][1].ok

\* Two slots have two blocks, and a new block is in one call's hands and nowhere else.
HandlesApart ==
  /\ \A s, u \in Slots : Used(s) /\ Used(u) /\ table[s].handle = table[u].handle => s = u
  /\ \A t \in Threads : call[t].step = "insert" => Untouched(call[t].handle)
  /\ \A t, u \in Threads : call[t].step = "insert" /\ call[u].step = "insert"
                             /\ call[t].handle = call[u].handle => t = u
  /\ Allotted =>
       /\ Untouched(resp[link][1].handle)
       /\ \A t \in Threads : call[t].step = "insert" => call[t].handle # resp[link][1].handle

\* The owner of p has sent a copy of v to it and waits for the answer.
Waits(p, v) ==
  lock \in Threads /\ lock = held[p] /\ call[lock].op \in Writes /\ call[lock].ptr = p /\ call[lock].val = v

\* A copy on its way to the block of p is in doubt, or is what the owner of p waits for.
InDoubt ==
  \A k \in Conns : \A m \in Sent(k) : m.op \in Writes =>
    \A p \in Ptrs : held[p] # NoOne /\ HandleOf(p) = m.handle =>
      m.val \in lost[p] \/ (k = link /\ resp[link] = <<>> /\ Waits(p, m.val))

\* What the block of p holds is the last write, or one that is in doubt or being made.
DataTrue ==
  \A p \in Ptrs : held[p] # NoOne /\ HandleOf(p) \in DOMAIN block =>
    \/ block[HandleOf(p)].data \in {last[p]} \cup lost[p]
    \/ Waits(p, block[HandleOf(p)].data)

\* An answer to a copy says what the block holds, or that there is none.
AnswersTrue ==
  link # 0 /\ resp[link] # <<>> /\ lock \in Threads =>
    LET p == call[lock].ptr
        h == call[lock].handle
        r == resp[link][1]
    IN  /\ call[lock].op \in Writes =>
             IF r.ok THEN h \in DOMAIN block => block[h].data \in {call[lock].val} \cup lost[p]
             ELSE h \notin DOMAIN block
        /\ call[lock].op = "d2h" /\ r.ok => r.val \in {last[p]} \cup lost[p]

DInv == HistoryShape /\ CopiesOwn /\ Asked /\ HandlesApart /\ InDoubt /\ DataTrue /\ AnswersTrue

LEMMA IInvStep == ASSUME ~Careless, IInv, [Next]_fabric PROVE IInv'
BY StepHost, StepWireShape, StepFeeder, StepCalls, StepWired, StepSlots, StepAccounts, StepPins, StepLost
DEF IInv

LEMMA MembersOf ==
  ASSUME NEW S, NEW s \in Seq(S)
  PROVE  /\ \A x \in Members(s) : x \in S
         /\ \A x \in S : Members(Append(s, x)) = Members(s) \cup {x}
         /\ s # <<>> => Members(Tail(s)) \subseteq Members(s) /\ s[1] \in Members(s) /\ Len(s) >= 1
<1>1. \A x \in Members(s) : x \in S
  BY ElementOfSeq DEF Members
<1>2. ASSUME NEW x \in S
      PROVE  Members(Append(s, x)) = Members(s) \cup {x}
  <2>1. /\ Len(Append(s, x)) = Len(s) + 1 /\ Len(s) \in Nat
        /\ \A i \in 1 .. Len(s) : Append(s, x)[i] = s[i]
        /\ Append(s, x)[Len(s) + 1] = x
    BY AppendProperties
  <2>2. 1 .. Len(s) + 1 = 1 .. Len(s) \cup {Len(s) + 1}
    BY <2>1
  <2>3. \A y \in Members(Append(s, x)) : y \in Members(s) \cup {x}
    BY <2>1, <2>2 DEF Members
  <2>4. \A y \in Members(s) : y \in Members(Append(s, x))
    BY <2>1, <2>2 DEF Members
  <2>5. x \in Members(Append(s, x))
    BY <2>1, <2>2 DEF Members
  <2> QED BY <2>3, <2>4, <2>5
<1>3. ASSUME s # <<>>
      PROVE  Members(Tail(s)) \subseteq Members(s) /\ s[1] \in Members(s) /\ Len(s) >= 1
  <2>1. /\ Len(Tail(s)) = Len(s) - 1 /\ Len(s) \in Nat \ {0}
        /\ \A i \in 1 .. Len(Tail(s)) : Tail(s)[i] = s[i + 1]
    BY <1>3, HeadTailProperties, EmptySeq
  <2>2. \A i \in 1 .. Len(Tail(s)) : i + 1 \in 1 .. Len(s)
    BY <2>1
  <2>3. 1 \in 1 .. Len(s)
    BY <2>1
  <2> QED BY <2>1, <2>2, <2>3 DEF Members
<1> QED BY <1>1, <1>2, <1>3

\* Members of the sequences on the wire.
LEMMA SentAre ==
  ASSUME IInv, NEW k \in Conns
  PROVE  /\ req[k] \in Seq(Msg) /\ resp[k] \in Seq(Answer)
         /\ \A m \in Sent(k) : m \in Msg
         /\ resp[k] # <<>> => resp[k][1] \in Answer
<1>1. req[k] \in Seq(Msg) /\ resp[k] \in Seq(Answer)
  BY DEF IInv, WireShape
<1>2. \A m \in Members(req[k]) : m \in Msg
  BY <1>1, MembersOf
<1>3. resp[k] # <<>> => resp[k][1] \in Answer
  BY <1>1, MembersOf
<1> QED BY <1>1, <1>2, <1>3 DEF Sent

\* A pointer keeps its handle as long as its slot is left alone.
LEMMA HandleKept ==
  ASSUME IInv, IInv', NEW p \in Ptrs, held'[p] # NoOne,
         \A s \in Slots : table'[s].ptr = p => table[s].ptr = p /\ table'[s].handle = table[s].handle
  PROVE  HandleOf(p)' = HandleOf(p)
<1>1. p \in Mapped' /\ p # NoPtr
  BY FabricAssumption DEF IInv, SlotsOK
<1>2. PICK s \in Slots : table'[s].ptr = p
  BY <1>1 DEF Mapped, Slots
<1> DEFINE u == CHOOSE x \in Slots : table'[x].ptr = p
           v == CHOOSE x \in Slots : table[x].ptr = p
<1>3. u \in Slots /\ table'[u].ptr = p
  BY <1>2
<1>4. table[u].ptr = p /\ table'[u].handle = table[u].handle
  BY <1>3
<1>5. v \in Slots /\ table[v].ptr = p
  BY <1>3, <1>4
<1>6. u = v
  BY <1>1, <1>3, <1>4, <1>5 DEF IInv, SlotsOK
<1>7. HandleOf(p)' = table'[u].handle /\ HandleOf(p) = table[v].handle
  BY DEF HandleOf, SlotOf, Slots
<1> QED BY <1>4, <1>6, <1>7

LEMMA HeldHas ==
  ASSUME IInv, NEW p \in Ptrs, held[p] # NoOne
  PROVE  SlotOf(p) \in Slots /\ table[SlotOf(p)].ptr = p /\ Used(SlotOf(p)) /\ HandleOf(p) <= handles /\ HandleOf(p) \in Nat
<1>1. p \in Mapped
  BY DEF IInv, SlotsOK
<1>2. SlotOf(p) \in Slots /\ table[SlotOf(p)].ptr = p
  BY <1>1, SlotOfMapped DEF IInv
<1> QED BY <1>2, FabricAssumption DEF IInv, SlotsOK, HostShape, Slot, Used, HandleOf

-----------------------------------------------------------------------------
(* Steps that leave the data alone. *)

\* The pointers, and what was written to them, as far as they stay.
PtrsStay ==
  \A p \in Ptrs : held'[p] # NoOne =>
    held'[p] = held[p] /\ HandleOf(p)' = HandleOf(p) /\ last'[p] = last[p] /\ lost'[p] = lost[p]

SlotsStay == \A s \in Slots : Used(s)' => Used(s) /\ table'[s].handle = table[s].handle

\* Nothing that copies is sent.
NoneSent ==
  \A k \in Conns' : \A m \in Sent(k)' :
    (k \in Conns /\ m \in Sent(k)) \/ (m.op \notin Writes /\ m.handle <= handles')

BlocksStay == \A h \in DOMAIN block' : h \in DOMAIN block /\ block'[h].data = block[h].data

\* A thread that has per_lock keeps it and waits on, and none takes it.
LockStays ==
  \/ lock \notin Threads /\ lock' \notin Threads
  \/ /\ lock \in Threads /\ lock' = lock /\ link' = link /\ call'[lock] = call[lock]
     /\ Sent(link)' \subseteq Sent(link)
     /\ net'[link] = "up" => net[link] = "up"
     /\ resp'[link] = resp[link] \/ resp'[link] = <<>>

Quiet ==
  /\ HistoryShape' /\ CopiesOwn'
  /\ PtrsStay /\ SlotsStay /\ NoneSent /\ BlocksStay /\ LockStays
  /\ \A t \in Threads : call'[t].step = "insert" => call'[t] = call[t]

\* What is untouched stays so while no copy to it is sent.
LEMMA UntouchedKept ==
  ASSUME IInv, NEW h, Untouched(h), SlotsStay, BlocksStay,
         \A k \in Conns' : \A m \in Sent(k)' : m.op \in Writes => m.handle # h \/ (k \in Conns /\ m \in Sent(k))
  PROVE  Untouched(h)'
<1>1. \A s \in Slots : Used(s)' => table'[s].handle # h
  BY DEF Untouched, SlotsStay
<1>2. h \in DOMAIN block' => block'[h].data = Junk
  BY DEF Untouched, BlocksStay
<1>3. \A k \in Conns' : \A m \in Sent(k)' : m.op \in Writes => m.handle # h
  BY DEF Untouched
<1> QED BY <1>1, <1>2, <1>3 DEF Untouched, Slots

LEMMA MessageStays ==
  ASSUME IInv, lock \in Threads, lock' = lock, call'[lock] = call[lock]
  PROVE  Message(lock)' = Message(lock)
BY DEF Message

\* CopiesOwn after a step, likewise.
LEMMA OwnFrom ==
  ASSUME \A t \in Threads : call'[t].op \in Copies =>
           /\ call'[t].step \in {"send", "recv"} /\ call'[t].ptr \in Ptrs /\ held'[call'[t].ptr] = t
           /\ \A p \in Ptrs : p = call'[t].ptr => call'[t].handle = HandleOf(p)'
  PROVE  CopiesOwn'
<1>1. ASSUME NEW t \in Threads, call'[t].op \in Copies, NEW p, p = call'[t].ptr
      PROVE  call'[t].handle = HandleOf(p)'
  BY <1>1
<1>2. \A t \in Threads : call'[t].op \in Copies => call'[t].handle = HandleOf(call[t].ptr)'
  BY <1>1 DEF HandleOf, SlotOf
<1> QED BY <1>2 DEF CopiesOwn

\* HandlesApart after a step, from what holds of the values after it.
LEMMA ApartFrom ==
  ASSUME \A s, u \in Slots : Used(s)' /\ Used(u)' /\ table'[s].handle = table'[u].handle => s = u,
         \A t \in Threads : call'[t].step = "insert" => \A h : h = call'[t].handle => Untouched(h)',
         \A t, u \in Threads : call'[t].step = "insert" /\ call'[u].step = "insert"
                                 /\ call'[t].handle = call'[u].handle => t = u,
         Allotted' =>
           /\ \A h : h = resp'[link'][1].handle => Untouched(h)'
           /\ \A t \in Threads : call'[t].step = "insert" => call'[t].handle # resp'[link'][1].handle
  PROVE  HandlesApart'
<1>1. \A t \in Threads : call'[t].step = "insert" => Untouched(call[t].handle)'
  BY DEF Untouched
<1>2. Allotted' => Untouched(resp[link][1].handle)'
  BY DEF Untouched
<1> QED BY <1>1, <1>2 DEF HandlesApart, Slots

LEMMA QuietKeeps == ASSUME ~Careless, IInv, DInv, [Next]_fabric, Quiet PROVE DInv'
<1>1. IInv' /\ handles \in Nat /\ handles' \in Nat /\ handles <= handles'
  BY IInvStep, HandlesGrow
<1>2. NoOne \notin Threads /\ (lock \in Threads => link # 0 /\ link \in Conns)
  BY FabricAssumption DEF IInv, HostShape
<1>3. Asked'
  <2>1. ASSUME NEW k \in Conns', NEW m \in Sent(k)'
        PROVE  m.handle <= handles'
    <3>1. CASE k \in Conns /\ m \in Sent(k)
      <4>1. m.handle \in Nat /\ m.handle <= handles
        BY <3>1, SentAre DEF Msg, DInv, Asked
      <4> QED BY <1>1, <4>1
    <3> QED BY <2>1, <3>1 DEF Quiet, NoneSent
  <2>3. ASSUME lock' \in Threads, net'[link'] = "up"
        PROVE  \A m \in Sent(link)' : Answered(m) => m = Message(lock)'
    <3>1. /\ lock \in Threads /\ lock' = lock /\ link' = link /\ call'[lock] = call[lock]
          /\ Sent(link)' \subseteq Sent(link) /\ net[link] = "up"
      BY <2>3 DEF Quiet, LockStays
    <3>2. Message(lock)' = Message(lock)
      BY <3>1, MessageStays
    <3> QED BY <1>2, <3>1, <3>2 DEF DInv, Asked
  <2> QED BY <2>1, <2>3 DEF Asked, Answered
<1>4. \A h : Untouched(h) => Untouched(h)'
  <2> SUFFICES ASSUME NEW h, Untouched(h) PROVE Untouched(h)'
    OBVIOUS
  <2> QED BY UntouchedKept DEF Quiet, NoneSent
<1>5. HandlesApart'
  <2>1. \A s, u \in Slots : Used(s)' /\ Used(u)' /\ table'[s].handle = table'[u].handle => s = u
    BY DEF Quiet, SlotsStay, DInv, HandlesApart
  <2>2. ASSUME NEW t \in Threads, call'[t].step = "insert"
        PROVE  call'[t] = call[t] /\ \A h : h = call'[t].handle => Untouched(h)'
    BY <1>4, <2>2 DEF Quiet, DInv, HandlesApart
  <2>3. \A t, u \in Threads : call'[t].step = "insert" /\ call'[u].step = "insert"
                                /\ call'[t].handle = call'[u].handle => t = u
    BY <2>2 DEF DInv, HandlesApart
  <2>4. ASSUME Allotted'
        PROVE  /\ \A h : h = resp'[link'][1].handle => Untouched(h)'
               /\ \A t \in Threads : call'[t].step = "insert" => call'[t].handle # resp'[link'][1].handle
    <3>1. Allotted /\ resp'[link'] = resp[link]
      BY <1>2, <2>4 DEF Quiet, LockStays, Allotted
    <3> QED BY <1>4, <2>2, <3>1 DEF DInv, HandlesApart
  <2> QED BY <2>1, <2>2, <2>3, <2>4, ApartFrom
<1>6. ASSUME NEW p \in Ptrs, NEW v, held'[p] # NoOne, Waits(p, v)
      PROVE  Waits(p, v)' /\ link' = link /\ (resp[link] = <<>> => resp'[link'] = <<>>)
  BY <1>6 DEF Quiet, LockStays, PtrsStay, Waits
<1>7. InDoubt'
  <2> SUFFICES ASSUME NEW k \in Conns', NEW m \in Sent(k)', m.op \in Writes,
                      NEW p \in Ptrs, held'[p] # NoOne, HandleOf(p)' = m.handle
               PROVE  m.val \in lost'[p] \/ (k = link' /\ resp'[link'] = <<>> /\ Waits(p, m.val)')
    BY DEF InDoubt
  <2>1. k \in Conns /\ m \in Sent(k)
    BY DEF Quiet, NoneSent
  <2>2. held[p] # NoOne /\ HandleOf(p) = m.handle /\ lost'[p] = lost[p]
    BY DEF Quiet, PtrsStay
  <2>3. m.val \in lost[p] \/ (k = link /\ resp[link] = <<>> /\ Waits(p, m.val))
    BY <2>1, <2>2 DEF DInv, InDoubt
  <2> QED BY <1>6, <2>2, <2>3
<1>8. DataTrue'
  <2> SUFFICES ASSUME NEW p \in Ptrs, held'[p] # NoOne, HandleOf(p)' \in DOMAIN block'
               PROVE  \/ block'[HandleOf(p)'].data \in {last'[p]} \cup lost'[p]
                      \/ Waits(p, block[HandleOf(p)].data)'
    BY DEF DataTrue
  <2>1. held[p] # NoOne /\ HandleOf(p)' = HandleOf(p) /\ lost'[p] = lost[p] /\ last'[p] = last[p]
    BY DEF Quiet, PtrsStay
  <2>2. HandleOf(p) \in DOMAIN block /\ block'[HandleOf(p)'].data = block[HandleOf(p)].data
    BY <2>1 DEF Quiet, BlocksStay
  <2>3. \/ block[HandleOf(p)].data \in {last[p]} \cup lost[p]
        \/ Waits(p, block[HandleOf(p)].data)
    BY <2>1, <2>2 DEF DInv, DataTrue
  <2>4. Waits(p, block[HandleOf(p)].data) => Waits(p, block[HandleOf(p)].data)'
    <3> DEFINE v == block[HandleOf(p)].data
    <3>1. v' = v
      BY <2>1, <2>2
    <3> QED BY <2>1, <2>2, <3>1 DEF Quiet, LockStays, PtrsStay, Waits
  <2> QED BY <2>1, <2>2, <2>3, <2>4
<1>9. AnswersTrue'
  <2> SUFFICES ASSUME link' # 0, resp'[link'] # <<>>, lock' \in Threads
               PROVE  LET p == call'[lock'].ptr
                          h == call'[lock'].handle
                          r == resp'[link'][1]
                      IN  /\ call'[lock'].op \in Writes =>
                               IF r.ok THEN h \in DOMAIN block' => block'[h].data \in {call'[lock'].val} \cup lost'[p]
                               ELSE h \notin DOMAIN block'
                          /\ call'[lock'].op = "d2h" /\ r.ok => r.val \in {last'[p]} \cup lost'[p]
    BY DEF AnswersTrue
  <2>1. lock \in Threads /\ lock' = lock /\ link' = link /\ call'[lock] = call[lock] /\ resp'[link] = resp[link]
    BY DEF Quiet, LockStays
  <2>2. call[lock].op \in Copies =>
          /\ call[lock].ptr \in Ptrs /\ last'[call[lock].ptr] = last[call[lock].ptr]
          /\ lost'[call[lock].ptr] = lost[call[lock].ptr]
    BY <1>2, <2>1 DEF Quiet, CopiesOwn, PtrsStay
  <2> QED BY <2>1, <2>2 DEF DInv, AnswersTrue, Quiet, BlocksStay, Copies
<1> QED BY <1>3, <1>5, <1>7, <1>8, <1>9 DEF DInv, Quiet

-----------------------------------------------------------------------------
(* A thread takes per_lock and sends its request. *)

Takes(t) ==
  /\ lock = NoOne /\ lock' = t /\ call[t].step = "send" /\ call' = [call EXCEPT ![t].step = "recv"]
  /\ link' \in Conns' /\ resp'[link'] = <<>>
  /\ \A k \in Conns' : \A m \in Sent(k)' :
       \/ k \in Conns /\ m \in Sent(k) /\ (k = link' => net'[k] = "cut" \/ ~Answered(m))
       \/ k = link' /\ m = Message(t)
  /\ UNCHANGED <<table, block, handles, held, last, lost>>

LEMMA TakesKeeps ==
  ASSUME ~Careless, IInv, DInv, [Next]_fabric, NEW t \in Threads, Takes(t)
  PROVE  DInv'
<1>1. IInv' /\ handles' = handles /\ lock \notin Threads /\ t \in Everyone /\ NoOne \notin Threads
  BY IInvStep, FabricAssumption DEF Takes, Everyone
<1>2. /\ call[t] \in Call /\ call' \in [Everyone -> Call] /\ call'[t] = [call[t] EXCEPT !.step = "recv"]
      /\ \A u \in Threads : u # t => call'[u] = call[u]
  BY <1>1 DEF Takes, IInv, HostShape, Everyone
<1>3. /\ call'[t].step = "recv" /\ call'[t].op = call[t].op /\ call'[t].ptr = call[t].ptr
      /\ call'[t].handle = call[t].handle /\ call'[t].val = call[t].val
  BY <1>2 DEF Call
<1>4. Message(t) \in Msg /\ Message(t).handle = call[t].handle /\ Message(t).val = call[t].val
      /\ (Message(t).op \in Writes => call[t].op \in Writes /\ Message(t).op = call[t].op)
  <2>1. Message(t) \in Msg
    BY <1>1, MessageIs
  <2>2. Message(t).op \in Writes => call[t].op \in Writes /\ Message(t).op = call[t].op
    BY <1>2 DEF Message, Writes, Call, Ops
  <2> QED BY <2>1, <2>2 DEF Message
<1>5. Message(t)' = Message(t)
  BY <1>3 DEF Message
<1>6. \A p \in Ptrs : HandleOf(p)' = HandleOf(p)
  BY DEF Takes, HandleOf, SlotOf, Slots
<1>7. HistoryShape'
  BY DEF Takes, DInv, HistoryShape
<1>8. CopiesOwn'
  <2> SUFFICES ASSUME NEW u \in Threads, call'[u].op \in Copies
               PROVE  /\ call'[u].step \in {"send", "recv"} /\ call'[u].ptr \in Ptrs /\ held'[call'[u].ptr] = u
                      /\ \A p \in Ptrs : p = call'[u].ptr => call'[u].handle = HandleOf(p)'
    BY OwnFrom
  <2>1. /\ call[u].op \in Copies /\ call'[u].ptr = call[u].ptr /\ call'[u].handle = call[u].handle
        /\ (u = t \/ call'[u] = call[u])
    BY <1>2, <1>3
  <2>2. call[u].ptr \in Ptrs /\ call[u].step \in {"send", "recv"} /\ held[call[u].ptr] = u
        /\ call[u].handle = HandleOf(call[u].ptr)
    BY <2>1 DEF DInv, CopiesOwn
  <2> QED BY <1>3, <1>6, <2>1, <2>2 DEF Takes
<1>9. Asked'
  <2>1. ASSUME NEW k \in Conns', NEW m \in Sent(k)'
        PROVE  m.handle <= handles'
    <3>1. CASE k \in Conns /\ m \in Sent(k)
      BY <1>1, <3>1 DEF DInv, Asked
    <3>2. CASE m = Message(t)
      BY <1>1, <1>4, <3>2 DEF IInv, Calls, CallOK
    <3> QED BY <2>1, <3>1, <3>2 DEF Takes
  <2>2. net'[link'] = "up" => \A m \in Sent(link)' : Answered(m) => m = Message(lock)'
    <3> SUFFICES ASSUME net'[link'] = "up", NEW m \in Sent(link)', Answered(m)
                 PROVE  m = Message(lock)'
      OBVIOUS
    <3>1. Message(lock)' = Message(t)'
      BY DEF Takes, Message
    <3>2. \A k : k = link' => Sent(k)' = Sent(link)'
      BY DEF Sent
    <3>3. m = Message(t)
      BY <3>2 DEF Takes
    <3> QED BY <1>5, <3>1, <3>3
  <2> QED BY <2>1, <2>2 DEF Asked, Answered
<1>10. \A u \in Threads : call'[u].step = "insert" => call'[u] = call[u] /\ call[u].step = "insert"
  BY <1>2, <1>3
<1>11. ASSUME NEW u \in Threads, call'[u].step = "insert", NEW h, h = call'[u].handle
       PROVE  Untouched(h)'
  <2>1. Untouched(h)
    BY <1>10, <1>11 DEF DInv, HandlesApart
  <2>2. Message(t).op \in Writes => Message(t).handle # h
    <3> SUFFICES ASSUME Message(t).op \in Writes PROVE call[t].handle # h
      BY <1>4
    <3>1. call[t].ptr \in Ptrs /\ held[call[t].ptr] = t /\ call[t].handle = HandleOf(call[t].ptr)
      BY <1>4 DEF DInv, CopiesOwn, Copies
    <3>2. SlotOf(call[t].ptr) \in Slots /\ Used(SlotOf(call[t].ptr))
      BY <1>1, <3>1, HeldHas
    <3> QED BY <2>1, <3>1, <3>2 DEF Untouched, HandleOf
  <2>3. SlotsStay /\ BlocksStay
    BY DEF Takes, SlotsStay, BlocksStay, Used
  <2>4. \A k \in Conns' : \A m \in Sent(k)' : m.op \in Writes => m.handle # h \/ (k \in Conns /\ m \in Sent(k))
    BY <2>2 DEF Takes
  <2> QED BY <2>1, <2>3, <2>4, UntouchedKept
<1>12. HandlesApart'
  <2>1. \A s, u \in Slots : Used(s)' /\ Used(u)' /\ table'[s].handle = table'[u].handle => s = u
    BY DEF Takes, Used, DInv, HandlesApart
  <2>2. \A u, v \in Threads : call'[u].step = "insert" /\ call'[v].step = "insert"
                                /\ call'[u].handle = call'[v].handle => u = v
    BY <1>10 DEF DInv, HandlesApart
  <2>3. ~Allotted'
    BY DEF Takes, Allotted
  <2> QED BY <1>11, <2>1, <2>2, <2>3, ApartFrom
<1>13. InDoubt'
  <2> SUFFICES ASSUME NEW k \in Conns', NEW m \in Sent(k)', m.op \in Writes,
                      NEW p \in Ptrs, held'[p] # NoOne, HandleOf(p)' = m.handle
               PROVE  m.val \in lost'[p] \/ (k = link' /\ resp'[link'] = <<>> /\ Waits(p, m.val)')
    BY DEF InDoubt
  <2>1. held[p] # NoOne /\ HandleOf(p) = m.handle /\ lost'[p] = lost[p] /\ held'[p] = held[p]
    BY <1>6 DEF Takes
  <2>2. CASE k \in Conns /\ m \in Sent(k)
    BY <1>1, <2>1, <2>2 DEF DInv, InDoubt, Waits
  <2>3. CASE k = link' /\ m = Message(t)
    <3> DEFINE q == call[t].ptr
    <3>1. q \in Ptrs /\ held[q] = t /\ call[t].handle = HandleOf(q)
      BY <1>4, <2>3 DEF DInv, CopiesOwn, Copies
    <3>2. /\ SlotOf(q) \in Slots /\ table[SlotOf(q)].ptr = q /\ Used(SlotOf(q))
          /\ SlotOf(p) \in Slots /\ table[SlotOf(p)].ptr = p /\ Used(SlotOf(p))
      BY <1>1, <2>1, <3>1, HeldHas
    <3>3. p = q
      BY <1>4, <2>1, <2>3, <3>1, <3>2 DEF DInv, HandlesApart, HandleOf
    <3>4. Waits(p, m.val)'
      BY <1>1, <1>3, <1>4, <2>1, <2>3, <3>1, <3>3 DEF Waits, Takes
    <3> QED BY <2>3, <3>4 DEF Takes
  <2> QED BY <2>2, <2>3 DEF Takes
<1>14. DataTrue'
  <2> SUFFICES ASSUME NEW p \in Ptrs, held'[p] # NoOne, HandleOf(p)' \in DOMAIN block'
               PROVE  block'[HandleOf(p)'].data \in {last'[p]} \cup lost'[p]
    BY DEF DataTrue
  <2>1. ~Waits(p, block[HandleOf(p)].data)
    BY <1>1 DEF Waits
  <2> QED BY <1>6, <2>1 DEF Takes, DInv, DataTrue
<1>15. AnswersTrue'
  BY DEF Takes, AnswersTrue
<1> QED BY <1>7, <1>8, <1>9, <1>12, <1>13, <1>14, <1>15 DEF DInv

-----------------------------------------------------------------------------
(* A thread has its answer, or has lost it, and lets go of per_lock. *)

\* What stays in both cases.
Leaves(t) ==
  /\ lock = t /\ lock' = NoOne /\ link # 0 /\ \E c \in Call : call' = [call EXCEPT ![t] = c] /\ c.op \notin Copies
  /\ Conns' = Conns /\ \A k \in Conns : Sent(k)' = Sent(k)
  /\ UNCHANGED <<table, block, handles, held>>

LEMMA LeavesKeeps ==
  ASSUME ~Careless, IInv, DInv, [Next]_fabric, NEW t \in Threads, Leaves(t)
  PROVE  /\ CopiesOwn' /\ Asked' /\ AnswersTrue'
         /\ \A h : Untouched(h) => Untouched(h)'
         /\ call'[t].step # "insert" => HandlesApart'
         /\ \A p \in Ptrs : HandleOf(p)' = HandleOf(p)
         /\ \A u \in Threads \ {t} : call'[u] = call[u]
<1>1. IInv' /\ handles' = handles /\ lock' \notin Threads /\ t \in Everyone /\ NoOne \notin Threads
  BY IInvStep, FabricAssumption DEF Leaves, Everyone
<1>2. PICK c \in Call : call' = [call EXCEPT ![t] = c] /\ c.op \notin Copies
  BY DEF Leaves
<1>3. call'[t] = c /\ \A u \in Threads \ {t} : call'[u] = call[u]
  BY <1>1, <1>2 DEF IInv, HostShape, Everyone
<1>4. \A p \in Ptrs : HandleOf(p)' = HandleOf(p)
  BY DEF Leaves, HandleOf, SlotOf, Slots
<1>5. CopiesOwn'
  <2> SUFFICES ASSUME NEW u \in Threads, call'[u].op \in Copies
               PROVE  /\ call'[u].step \in {"send", "recv"} /\ call'[u].ptr \in Ptrs /\ held'[call'[u].ptr] = u
                      /\ \A p \in Ptrs : p = call'[u].ptr => call'[u].handle = HandleOf(p)'
    BY OwnFrom
  <2>1. call'[u] = call[u]
    BY <1>2, <1>3
  <2> QED BY <1>4, <2>1 DEF Leaves, DInv, CopiesOwn
<1>6. Asked'
  BY <1>1 DEF Leaves, DInv, Asked
<1>7. AnswersTrue'
  BY <1>1 DEF AnswersTrue
<1>8. ASSUME NEW h, Untouched(h) PROVE Untouched(h)'
  <2>1. SlotsStay /\ BlocksStay
    BY DEF Leaves, SlotsStay, BlocksStay, Used
  <2>2. \A k \in Conns' : \A m \in Sent(k)' : m.op \in Writes => m.handle # h \/ (k \in Conns /\ m \in Sent(k))
    BY DEF Leaves
  <2> QED BY <1>8, <2>1, <2>2, UntouchedKept
<1>9. ASSUME call'[t].step # "insert" PROVE HandlesApart'
  <2>1. \A s, u \in Slots : Used(s)' /\ Used(u)' /\ table'[s].handle = table'[u].handle => s = u
    BY DEF Leaves, Used, DInv, HandlesApart
  <2>2. \A u \in Threads : call'[u].step = "insert" => call'[u] = call[u]
    BY <1>3, <1>9
  <2>3. \A u \in Threads : call'[u].step = "insert" => \A h : h = call'[u].handle => Untouched(h)'
    BY <1>8, <2>2 DEF DInv, HandlesApart
  <2>4. \A u, v \in Threads : call'[u].step = "insert" /\ call'[v].step = "insert"
                                /\ call'[u].handle = call'[v].handle => u = v
    BY <2>2 DEF DInv, HandlesApart
  <2>5. ~Allotted'
    BY <1>1 DEF Allotted
  <2> QED BY <2>1, <2>3, <2>4, <2>5, ApartFrom
<1> QED BY <1>3, <1>4, <1>5, <1>6, <1>7, <1>8, <1>9

LEMMA RecvKeeps ==
  ASSUME ~Careless, IInv, DInv, [Next]_fabric, NEW t \in Threads, Recv(t)
  PROVE  DInv'
<1> DEFINE r == resp[link][1]
           c == call[t]
<1>1. /\ link # 0 /\ lock = t /\ lock' = NoOne /\ resp[link] # <<>> /\ r \in Answer
      /\ call' = [call EXCEPT ![t] = Heard(c, r)]
      /\ UNCHANGED <<link, table, net, req, block, handles, held>>
  BY RecvEffect DEF Everyone, feeder
<1>2. c \in Call /\ t \in Everyone /\ NoOne \notin Threads /\ lock' \notin Threads /\ link \in Conns
  BY <1>1, FabricAssumption DEF IInv, HostShape, Everyone
<1>3. /\ Heard(c, r) \in Call /\ Heard(c, r).step \in {"idle", "insert", "release"}
      /\ Heard(c, r).step = "insert" <=> c.op \in Mallocs /\ r.ok
      /\ Heard(c, r).step = "insert" => Heard(c, r).handle = r.handle /\ Heard(c, r).op = c.op
      /\ Heard(c, r).step = "release" => c.op = "exec" /\ Heard(c, r) = [c EXCEPT !.step = "release"]
      /\ Heard(c, r).step = "idle" => Heard(c, r) = Idle /\ c.op # "exec"
  BY <1>1, <1>2, HeardIs
<1>4. Heard(c, r).op \notin Copies
  BY <1>2, <1>3, IdleIsProper DEF Copies, Writes, Mallocs, Call
<1>5. Leaves(t)
  BY <1>1, <1>2, <1>3, <1>4 DEF Leaves, Sent, Conns
<1>6. /\ CopiesOwn' /\ Asked' /\ AnswersTrue'
      /\ \A h : Untouched(h) => Untouched(h)'
      /\ call'[t].step # "insert" => HandlesApart'
      /\ \A p \in Ptrs : HandleOf(p)' = HandleOf(p)
      /\ \A u \in Threads \ {t} : call'[u] = call[u]
  BY <1>5, LeavesKeeps
<1>7. call'[t] = Heard(c, r)
  BY <1>1, <1>2 DEF IInv, HostShape
<1>8. HandlesApart'
  <2> SUFFICES ASSUME call'[t].step = "insert" PROVE HandlesApart'
    BY <1>6
  <2>1. Allotted /\ call'[t].handle = r.handle
    BY <1>1, <1>3, <1>7 DEF Allotted
  <2>2. Untouched(r.handle) /\ \A u \in Threads : call[u].step = "insert" => call[u].handle # r.handle
    BY <2>1 DEF DInv, HandlesApart
  <2>3. \A s, u \in Slots : Used(s)' /\ Used(u)' /\ table'[s].handle = table'[u].handle => s = u
    BY <1>1 DEF Used, DInv, HandlesApart
  <2>4. \A u \in Threads : call'[u].step = "insert" => \A h : h = call'[u].handle => Untouched(h)'
    BY <1>6, <2>1, <2>2 DEF DInv, HandlesApart
  <2>5. \A u, v \in Threads : call'[u].step = "insert" /\ call'[v].step = "insert"
                                /\ call'[u].handle = call'[v].handle => u = v
    BY <1>6, <2>1, <2>2 DEF DInv, HandlesApart
  <2>6. ~Allotted'
    BY <1>2 DEF Allotted
  <2> HIDE DEF r, c
  <2> QED BY <2>3, <2>4, <2>5, <2>6, ApartFrom
<1>9. Head(resp[link]) = r /\ lost' = lost
  BY <1>2, SentAre DEF Recv
<1>10. last' = IF c.op = "h2d" \/ (c.op = "memset" /\ r.ok) THEN [last EXCEPT ![c.ptr] = c.val] ELSE last
  BY <1>9 DEF Recv
<1>11. c.op \in Writes => c.ptr \in Ptrs /\ held[c.ptr] = t /\ c.handle = HandleOf(c.ptr)
  BY DEF DInv, CopiesOwn, Copies
<1>12. HistoryShape'
  BY <1>2, <1>9, <1>10, <1>11 DEF DInv, HistoryShape, Writes, Call
<1>13. InDoubt'
  <2> SUFFICES ASSUME NEW k \in Conns', NEW m \in Sent(k)', m.op \in Writes,
                      NEW p \in Ptrs, held'[p] # NoOne, HandleOf(p)' = m.handle
               PROVE  m.val \in lost'[p]
    BY DEF InDoubt
  <2>1. k \in Conns /\ m \in Sent(k) /\ held[p] # NoOne /\ HandleOf(p) = m.handle
    BY <1>1, <1>5, <1>6 DEF Leaves
  <2> QED BY <1>1, <1>9, <2>1 DEF DInv, InDoubt
<1>14. DataTrue'
  <2> SUFFICES ASSUME NEW p \in Ptrs, held'[p] # NoOne, HandleOf(p)' \in DOMAIN block'
               PROVE  block'[HandleOf(p)'].data \in {last'[p]} \cup lost'[p]
    BY DEF DataTrue
  <2> DEFINE h == HandleOf(p)
             d == block[h].data
  <2>1. held[p] # NoOne /\ h \in DOMAIN block /\ HandleOf(p)' = h /\ block' = block
    BY <1>1, <1>6
  <2>2. CASE c.op \in Writes /\ c.ptr = p
    <3>1. c.handle = h
      BY <1>11, <2>2
    <3>2. IF r.ok THEN d \in {c.val} \cup lost[p] ELSE FALSE
      BY <1>1, <2>1, <2>2, <3>1 DEF DInv, AnswersTrue
    <3>3. last'[p] = c.val
      BY <1>10, <1>11, <2>2, <3>2 DEF DInv, HistoryShape, Writes
    <3> QED BY <1>9, <2>1, <3>2, <3>3
  <2>3. CASE ~(c.op \in Writes /\ c.ptr = p)
    <3>1. ~Waits(p, d)
      BY <1>1, <2>3 DEF Waits
    <3>2. d \in {last[p]} \cup lost[p]
      BY <2>1, <3>1 DEF DInv, DataTrue
    <3>3. last'[p] = last[p]
      BY <1>10, <1>11, <2>3 DEF DInv, HistoryShape, Writes
    <3> QED BY <1>9, <2>1, <3>2, <3>3
  <2> QED BY <2>2, <2>3
<1> QED BY <1>6, <1>8, <1>12, <1>13, <1>14 DEF DInv

LEMMA RecvFailsKeeps ==
  ASSUME ~Careless, IInv, DInv, [Next]_fabric, NEW t \in Threads, RecvFails(t)
  PROVE  DInv'
<1> DEFINE c == call[t]
<1>1. /\ lock = t /\ lock' = NoOne /\ t \in Everyone /\ link # 0 /\ link \in Conns /\ c \in Call /\ NoOne \notin Threads
      /\ UNCHANGED <<table, req, block, handles, held, last>> /\ Failed(t)
  BY FabricAssumption DEF RecvFails, IInv, HostShape, Everyone, feeder
<1>2. call' = [call EXCEPT ![t] = GivenUp(c)] /\ Conns' = Conns
  BY <1>1, FailedEffect DEF Conns
<1>3. /\ GivenUp(c) \in Call /\ GivenUp(c).step \in {"idle", "send", "release"}
      /\ c.op = "exec" => GivenUp(c) = [c EXCEPT !.step = "release"]
      /\ c.op # "exec" => GivenUp(c).op \in {"idle", "mem_info"}
  BY <1>1, GivenUpIs
<1>4. GivenUp(c).op \notin Copies
  BY <1>1, <1>3 DEF Copies, Writes, Call
<1>5. Leaves(t)
  BY <1>1, <1>2, <1>3, <1>4 DEF Leaves, Sent
<1>6. /\ CopiesOwn' /\ Asked' /\ AnswersTrue'
      /\ call'[t].step # "insert" => HandlesApart'
      /\ \A p \in Ptrs : HandleOf(p)' = HandleOf(p)
  BY <1>5, LeavesKeeps
<1>7. HandlesApart'
  BY <1>1, <1>2, <1>3, <1>6 DEF IInv, HostShape
<1>8. lost' = IF c.op \in Writes THEN [lost EXCEPT ![c.ptr] = @ \cup {c.val}] ELSE lost
  BY DEF RecvFails, Writes
<1>9. c.op \in Writes => c.ptr \in Ptrs
  BY DEF DInv, CopiesOwn, Copies
<1>10. HistoryShape'
  BY <1>1, <1>8, <1>9 DEF DInv, HistoryShape, Call
<1>11. \A p \in Ptrs : lost[p] \subseteq lost'[p] /\ \A v : Waits(p, v) => v \in lost'[p]
  BY <1>1, <1>8, <1>9 DEF DInv, HistoryShape, Waits
<1>12. InDoubt'
  <2> SUFFICES ASSUME NEW k \in Conns', NEW m \in Sent(k)', m.op \in Writes,
                      NEW p \in Ptrs, held'[p] # NoOne, HandleOf(p)' = m.handle
               PROVE  m.val \in lost'[p]
    BY DEF InDoubt
  <2>1. k \in Conns /\ m \in Sent(k) /\ held[p] # NoOne /\ HandleOf(p) = m.handle
    BY <1>1, <1>5, <1>6 DEF Leaves
  <2> QED BY <1>11, <2>1 DEF DInv, InDoubt
<1>13. DataTrue'
  <2> SUFFICES ASSUME NEW p \in Ptrs, held'[p] # NoOne, HandleOf(p)' \in DOMAIN block'
               PROVE  block'[HandleOf(p)'].data \in {last'[p]} \cup lost'[p]
    BY DEF DataTrue
  <2>1. held[p] # NoOne /\ HandleOf(p) \in DOMAIN block /\ HandleOf(p)' = HandleOf(p) /\ block' = block
    BY <1>1, <1>6
  <2> QED BY <1>1, <1>11, <2>1 DEF DInv, DataTrue
<1> QED BY <1>6, <1>7, <1>10, <1>12, <1>13 DEF DInv

-----------------------------------------------------------------------------
(* A new block gets a slot and a pointer. *)

Enters(t, s, p) ==
  /\ call[t].step = "insert" /\ table[s].ptr = NoPtr /\ p \notin Mapped
  /\ table' = [table EXCEPT ![s].ptr = p, ![s].handle = call[t].handle]
  /\ held' = [held EXCEPT ![p] = t]
  /\ last' = [last EXCEPT ![p] = Junk] /\ lost' = [lost EXCEPT ![p] = {}]
  /\ call' = [call EXCEPT ![t] = Idle]
  /\ UNCHANGED <<link, lock, net, req, resp, block, handles>>

LEMMA EntersKeeps ==
  ASSUME ~Careless, IInv, DInv, [Next]_fabric, NEW t \in Threads, NEW s \in Slots, NEW p \in Ptrs, Enters(t, s, p)
  PROVE  DInv'
<1> DEFINE n == call[t].handle
<1>1. IInv' /\ t \in Everyone /\ NoOne \notin Threads /\ t # NoOne /\ p # NoPtr /\ lock # t
  BY IInvStep, FabricAssumption DEF Enters, Everyone, IInv, Calls, CallOK
<1>2. /\ table'[s].ptr = p /\ table'[s].handle = n
      /\ \A u \in Slots \ {s} : table'[u] = table[u]
  BY DEF Enters, IInv, HostShape, Slot
<1>3. held[p] = NoOne
  BY DEF Enters, IInv, SlotsOK
<1>4. /\ held'[p] = t /\ \A q \in Ptrs \ {p} : held'[q] = held[q]
      /\ last'[p] = Junk /\ lost'[p] = {}
      /\ \A q \in Ptrs \ {p} : last'[q] = last[q] /\ lost'[q] = lost[q]
  BY DEF Enters, IInv, HostShape, DInv, HistoryShape
<1>5. call'[t] = Idle /\ \A u \in Threads \ {t} : call'[u] = call[u]
  BY <1>1 DEF Enters, IInv, HostShape, Everyone
<1>6. \A q \in Ptrs \ {p} : held'[q] # NoOne => HandleOf(q)' = HandleOf(q)
  <2> SUFFICES ASSUME NEW q \in Ptrs \ {p}, held'[q] # NoOne PROVE HandleOf(q)' = HandleOf(q)
    OBVIOUS
  <2>1. \A u \in Slots : table'[u].ptr = q => table[u].ptr = q /\ table'[u].handle = table[u].handle
    BY <1>2
  <2> QED BY <1>1, <2>1, HandleKept
<1>7. HandleOf(p)' = n
  <2>1. SlotOf(p)' = s
    <3> DEFINE u == CHOOSE x \in Slots : table'[x].ptr = p
    <3>1. u \in Slots /\ table'[u].ptr = p
      BY <1>2
    <3>2. u = s
      BY <1>1, <1>2, <3>1 DEF IInv, SlotsOK, Slots
    <3> QED BY <3>2 DEF SlotOf, Slots
  <2> QED BY <1>2, <2>1 DEF HandleOf
<1>8. Untouched(n)
  BY DEF Enters, DInv, HandlesApart
<1>9. HistoryShape'
  BY DEF Enters, DInv, HistoryShape, Datum
<1>10. CopiesOwn'
  <2> SUFFICES ASSUME NEW u \in Threads, call'[u].op \in Copies
               PROVE  /\ call'[u].step \in {"send", "recv"} /\ call'[u].ptr \in Ptrs /\ held'[call'[u].ptr] = u
                      /\ \A q \in Ptrs : q = call'[u].ptr => call'[u].handle = HandleOf(q)'
    BY OwnFrom
  <2>1. u # t
    BY <1>5, IdleIsProper DEF Copies, Writes
  <2>2. /\ call'[u] = call[u] /\ call[u].ptr \in Ptrs /\ call[u].step \in {"send", "recv"}
        /\ held[call[u].ptr] = u /\ call[u].handle = HandleOf(call[u].ptr) /\ u # NoOne
    BY <1>1, <1>5, <2>1 DEF DInv, CopiesOwn
  <2>3. call[u].ptr # p
    BY <1>3, <2>2
  <2> QED BY <1>4, <1>6, <2>2, <2>3
<1>11. lock \in Threads => call'[lock] = call[lock]
  BY <1>1, <1>5
<1>12. Asked'
  <2>1. lock \in Threads => Message(lock)' = Message(lock)
    BY <1>11 DEF Message, Enters
  <2> QED BY <2>1 DEF Enters, DInv, Asked, Sent, Conns, Answered
<1>13. ASSUME NEW h, Untouched(h), h # n PROVE Untouched(h)'
  <2>1. \A u \in Slots : Used(u)' => table'[u].handle # h
    BY <1>2, <1>13 DEF Untouched, Used
  <2> QED BY <1>13, <2>1 DEF Untouched, Enters, Sent, Conns, Slots
<1>14. \A u \in Threads : call'[u].step = "insert" => u # t /\ call'[u] = call[u] /\ call[u].handle # n
  BY <1>5, IdleIsProper DEF Enters, DInv, HandlesApart
<1>15. HandlesApart'
  <2>1. \A u, v \in Slots : Used(u)' /\ Used(v)' /\ table'[u].handle = table'[v].handle => u = v
    <3>1. \A u \in Slots \ {s} : Used(u)' => Used(u) /\ table'[u] = table[u] /\ table[u].handle # n
      BY <1>2, <1>8 DEF Used, Untouched
    <3> QED BY <1>2, <3>1 DEF DInv, HandlesApart
  <2>2. \A u \in Threads : call'[u].step = "insert" => \A h : h = call'[u].handle => Untouched(h)'
    BY <1>13, <1>14 DEF DInv, HandlesApart
  <2>3. \A u, v \in Threads : call'[u].step = "insert" /\ call'[v].step = "insert"
                                /\ call'[u].handle = call'[v].handle => u = v
    BY <1>14 DEF DInv, HandlesApart
  <2>4. ASSUME Allotted'
        PROVE  /\ \A h : h = resp'[link'][1].handle => Untouched(h)'
               /\ \A u \in Threads : call'[u].step = "insert" => call'[u].handle # resp'[link'][1].handle
    <3>1. Allotted /\ resp'[link'] = resp[link]
      BY <1>11, <2>4 DEF Allotted, Enters
    <3>2. /\ Untouched(resp[link][1].handle)
          /\ \A u \in Threads : call[u].step = "insert" => call[u].handle # resp[link][1].handle
      BY <3>1 DEF DInv, HandlesApart
    <3> QED BY <1>13, <1>14, <3>1, <3>2 DEF Enters
  <2> QED BY <2>1, <2>2, <2>3, <2>4, ApartFrom
<1>16. \A q \in Ptrs \ {p} : \A v : Waits(q, v) => Waits(q, v)'
  BY <1>4, <1>11 DEF Waits, Enters
<1>17. InDoubt'
  <2> SUFFICES ASSUME NEW k \in Conns', NEW m \in Sent(k)', m.op \in Writes,
                      NEW q \in Ptrs, held'[q] # NoOne, HandleOf(q)' = m.handle
               PROVE  m.val \in lost'[q] \/ (k = link' /\ resp'[link'] = <<>> /\ Waits(q, m.val)')
    BY DEF InDoubt
  <2>1. k \in Conns /\ m \in Sent(k)
    BY DEF Enters, Sent, Conns
  <2>2. q # p
    BY <1>7, <1>8, <2>1 DEF Untouched
  <2>3. held[q] # NoOne /\ HandleOf(q) = m.handle
    BY <1>4, <1>6, <2>2
  <2> QED BY <1>4, <1>16, <2>1, <2>2, <2>3 DEF DInv, InDoubt, Enters
<1>18. DataTrue'
  <2> SUFFICES ASSUME NEW q \in Ptrs, held'[q] # NoOne, HandleOf(q)' \in DOMAIN block'
               PROVE  \/ block'[HandleOf(q)'].data \in {last'[q]} \cup lost'[q]
                      \/ \A v : v = block'[HandleOf(q)'].data => Waits(q, v)'
    BY DEF DataTrue, Waits
  <2>1. CASE q = p
    BY <1>4, <1>7, <1>8, <2>1 DEF Untouched, Enters
  <2>2. CASE q # p
    <3>1. held[q] # NoOne /\ HandleOf(q)' = HandleOf(q) /\ block' = block
      BY <1>4, <1>6, <2>2 DEF Enters
    <3>2. \/ block[HandleOf(q)].data \in {last[q]} \cup lost[q]
          \/ Waits(q, block[HandleOf(q)].data)
      BY <3>1 DEF DInv, DataTrue
    <3> QED BY <1>4, <1>16, <2>2, <3>1, <3>2
  <2> QED BY <2>1, <2>2
<1>19. AnswersTrue'
  <2>1. CASE ~(link # 0 /\ resp[link] # <<>> /\ lock \in Threads)
    BY <2>1 DEF Enters, AnswersTrue
  <2>2. CASE link # 0 /\ resp[link] # <<>> /\ lock \in Threads
    <3>1. call[lock].op \in Copies => call[lock].ptr \in Ptrs \ {p}
      BY <1>1, <1>3, <2>2 DEF DInv, CopiesOwn
    <3> QED BY <1>4, <1>11, <2>2, <3>1 DEF DInv, AnswersTrue, Enters, Copies
  <2> QED BY <2>1, <2>2
<1> QED BY <1>9, <1>10, <1>12, <1>15, <1>17, <1>18, <1>19 DEF DInv

-----------------------------------------------------------------------------
(* The feeder serves a message. *)

\* What serving m does to the blocks, and what it answers.
Effects(m, ok, h, v) ==
  /\ \A x \in DOMAIN block' :
       \/ /\ x \in DOMAIN block
          /\ \/ block'[x].data = block[x].data
             \/ m.op \in Writes /\ m.handle = x /\ block'[x].data = m.val
       \/ x = handles + 1 /\ block'[x].data = Junk
  /\ m.op \in Writes => IF ok THEN m.handle \in DOMAIN block' /\ block'[m.handle].data = m.val
                        ELSE m.handle \notin DOMAIN block'
  /\ m.op = "d2h" /\ ok => m.handle \in DOMAIN block /\ v = block[m.handle].data
  /\ m.op = "malloc" /\ ok => h = handles + 1

LEMMA ServeEffects ==
  ASSUME ~CudaFails, IInv, NEW k \in Conns, Serve(k)
  PROVE  /\ k \in clients /\ req[k] # <<>>
         /\ \E ok \in BOOLEAN, h \in Nat, v \in Datum :
              Served(k, Next1(k), ok, h, v) /\ Effects(Next1(k), ok, h, v)
<1> DEFINE m == Next1(k)
<1>1. k \in clients /\ req[k] # <<>>
  BY ServeEffect
<1>2. /\ m \in Msg /\ 0 \in Nat /\ handles \in Nat /\ Junk \in Datum
      /\ \A x \in DOMAIN block : /\ block[x].data \in Datum
                                 /\ block[x] = [owner |-> block[x].owner, data |-> block[x].data]
  <2>1. m = req[k][1]
    BY <1>1, SentAre, HeadTailProperties DEF Next1
  <2>2. m \in Msg
    BY <1>1, <2>1, SentAre, MembersOf
  <2> QED BY <2>2 DEF IInv, FeederShape, Datum
<1> HIDE DEF m
<1>3. CASE CudaMalloc(k)
  <2>1. m.op = "malloc"
    BY <1>3 DEF CudaMalloc, Has, m
  <2>2. CASE /\ block' = Put(block, Handle, [owner |-> k, data |-> Junk])
             /\ Served(k, m, TRUE, Handle, Junk)
    <3>1. Effects(m, TRUE, Handle, Junk) /\ Handle \in Nat
      BY <1>2, <2>1, <2>2 DEF Effects, Put, Handle, Writes
    <3> QED BY <1>1, <1>2, <2>2, <3>1 DEF m
  <2>3. CASE Served(k, m, FALSE, 0, Junk) /\ UNCHANGED block
    <3>1. Effects(m, FALSE, 0, Junk)
      BY <2>1, <2>3 DEF Effects, Writes
    <3> QED BY <1>1, <1>2, <2>3, <3>1 DEF m
  <2> QED BY <1>3, <2>2, <2>3 DEF CudaMalloc, m
<1>4. CASE CudaWrite(k)
  <2>1. m.op \in Writes
    BY <1>4 DEF CudaWrite, Has, m, Writes
  <2>2. CASE /\ m.handle \in DOMAIN block /\ block' = [block EXCEPT ![m.handle].data = m.val]
             /\ Served(k, m, TRUE, 0, Junk)
    <3>1. /\ DOMAIN block' = DOMAIN block /\ block'[m.handle].data = m.val
          /\ \A x \in DOMAIN block : x # m.handle => block'[x] = block[x]
      BY <1>2, <2>2
    <3>2. Effects(m, TRUE, 0, Junk)
      BY <2>1, <2>2, <3>1 DEF Effects, Writes
    <3> QED BY <1>1, <1>2, <2>2, <3>2 DEF m
  <2>3. CASE m.handle \notin DOMAIN block /\ Served(k, m, FALSE, 0, Junk) /\ UNCHANGED block
    <3>1. Effects(m, FALSE, 0, Junk)
      BY <2>1, <2>3 DEF Effects, Writes
    <3> QED BY <1>1, <1>2, <2>3, <3>1 DEF m
  <2> QED BY <1>4, <2>2, <2>3 DEF CudaWrite, m
<1>5. CASE CudaRead(k)
  <2> DEFINE known == m.handle \in DOMAIN block
             v == IF known THEN block[m.handle].data ELSE Junk
  <2>1. m.op \notin Writes \cup {"malloc"} /\ block' = block /\ Served(k, m, known, 0, v)
    BY <1>5 DEF CudaRead, Has, Writes, m
  <2>2. v \in Datum /\ known \in BOOLEAN
    BY <1>2
  <2>3. Effects(m, known, 0, v)
    BY <2>1 DEF Effects
  <2> QED BY <1>1, <1>2, <2>1, <2>2, <2>3 DEF m
<1>6. CASE CudaFree(k)
  <2>1. m.op = "free"
    BY <1>6 DEF CudaFree, Has, m
  <2>2. /\ block' = Drop(block, {m.handle}) \/ block' = block
        /\ \E ok \in BOOLEAN : Served(k, m, ok, 0, Junk)
    BY <1>6 DEF CudaFree, m
  <2>3. \A ok \in BOOLEAN : Effects(m, ok, 0, Junk)
    BY <2>1, <2>2 DEF Effects, Drop, Writes
  <2> QED BY <1>1, <1>2, <2>2, <2>3 DEF m
<1>7. CASE Other(k)
  <2>1. m.op \notin Writes \cup {"malloc", "d2h"} /\ block' = block /\ Served(k, m, TRUE, 0, Junk)
    BY <1>7 DEF Other, Has, Writes, m
  <2>2. Effects(m, TRUE, 0, Junk)
    BY <2>1 DEF Effects
  <2> QED BY <1>1, <1>2, <2>1, <2>2 DEF m
<1> QED BY <1>3, <1>4, <1>5, <1>6, <1>7 DEF Serve

LEMMA ServeKeeps ==
  ASSUME ~Careless, ~CudaFails, IInv, DInv, [Next]_fabric, NEW k \in Conns, Serve(k)
  PROVE  DInv'
<1> DEFINE m == Next1(k)
<1>1. IInv' /\ handles \in Nat /\ handles' \in Nat /\ handles <= handles' /\ k \in clients /\ req[k] # <<>>
      /\ NoOne \notin Threads
  BY IInvStep, HandlesGrow, ServeEffect, FabricAssumption
<1>2. PICK ok \in BOOLEAN, h \in Nat, v \in Datum : Served(k, m, ok, h, v) /\ Effects(m, ok, h, v)
  BY ServeEffects
<1> DEFINE a == [of |-> m.of, ok |-> ok, handle |-> h, val |-> v]
<1>3. /\ req[k] \in Seq(Msg) /\ m \in Msg /\ m = req[k][1]
      /\ req' = [req EXCEPT ![k] = Tail(@)]
      /\ \/ resp' = resp /\ (net[k] = "cut" \/ ~Answered(m))
         \/ net[k] = "up" /\ Answered(m) /\ a \in Answer /\ resp' = [resp EXCEPT ![k] = Append(@, a)]
      /\ UNCHANGED <<link, lock, table, call, net, clients, held, last, lost, orphans>>
  BY <1>1, <1>2, ServedEffect
<1>4. m \in Sent(k) /\ Conns' = Conns /\ \A j \in Conns : Sent(j)' \subseteq Sent(j)
  <2>1. m \in Members(req[k]) /\ Members(Tail(req[k])) \subseteq Members(req[k])
    BY <1>1, <1>3, MembersOf
  <2>2. \A j \in Conns : req'[j] = IF j = k THEN Tail(req[j]) ELSE req[j]
    BY <1>3 DEF IInv, WireShape
  <2> QED BY <1>3, <2>1, <2>2 DEF Sent, Conns
<1> HIDE DEF m, a
<1>5. lock \in Threads => link # 0 /\ link \in Conns
  BY <1>1 DEF IInv, HostShape
<1>6. \A p \in Ptrs : HandleOf(p)' = HandleOf(p)
  BY <1>3 DEF HandleOf, SlotOf, Slots
<1>7. HistoryShape' /\ CopiesOwn'
  <2>1. HistoryShape'
    BY <1>3 DEF DInv, HistoryShape
  <2>2. CopiesOwn'
    <3>1. \A t \in Threads : call'[t].op \in Copies =>
            /\ call'[t].step \in {"send", "recv"} /\ call'[t].ptr \in Ptrs /\ held'[call'[t].ptr] = t
            /\ \A p \in Ptrs : p = call'[t].ptr => call'[t].handle = HandleOf(p)'
      BY <1>3, <1>6 DEF DInv, CopiesOwn
    <3> QED BY <3>1, OwnFrom
  <2> QED BY <2>1, <2>2
<1>8. ASSUME NEW j \in Conns, NEW x \in Sent(j) PROVE x.handle \in Nat /\ x.handle <= handles
  BY <1>8, SentAre DEF Msg, DInv, Asked
<1>9. Asked'
  <2>1. \A j \in Conns' : \A x \in Sent(j)' : x.handle <= handles'
    BY <1>1, <1>4, <1>8
  <2>2. lock \in Threads => Message(lock)' = Message(lock)
    BY <1>3 DEF Message
  <2>3. \A j : j = link => Sent(j)' = Sent(link)'
    BY <1>3 DEF Sent
  <2>4. link # 0 /\ net[link] = "up" /\ lock \in Threads => \A x \in Sent(link)' : Answered(x) => x = Message(lock)
    BY <1>4, <1>5, <2>3 DEF DInv, Asked
  <2> QED BY <1>3, <2>1, <2>2, <2>4 DEF Asked, Answered
\* A response on the host's connection is the old one, or the one to the message.
<1>10. ASSUME link # 0, lock \in Threads, resp'[link] # <<>>, resp'[link] # resp[link]
       PROVE  /\ k = link /\ net[link] = "up" /\ resp[link] = <<>> /\ resp'[link] = <<a>> /\ m = Message(lock)
              /\ \A x \in Sent(link)' : ~Answered(x)
  <2>1. k = link /\ net[k] = "up" /\ Answered(m) /\ a \in Answer /\ resp' = [resp EXCEPT ![k] = Append(@, a)]
    BY <1>3, <1>5, <1>10 DEF IInv, WireShape
  <2>2. m = Message(lock)
    BY <1>4, <1>10, <2>1 DEF DInv, Asked
  <2>3. resp[link] = <<>>
    <3>1. ReqOK /\ 1 \in 1 .. Len(req[link])
      BY <1>1, <1>3, <1>10, <2>1, MembersOf DEF IInv, Wired
    <3> QED BY <1>3, <2>1, <3>1 DEF ReqOK
  <2>4. resp'[link] = <<a>>
    BY <2>1, <2>3 DEF IInv, WireShape
  <2>5. ReqOK'
    BY <1>1, <1>3, <1>10, <2>1 DEF IInv, Wired
  <2>6. \A x \in Sent(link)' : ~Answered(x)
    BY <1>3, <1>10, <2>5 DEF ReqOK, Sent, Members, Answered
  <2> QED BY <2>1, <2>2, <2>3, <2>4, <2>6
<1>11. ASSUME NEW x, Untouched(x) PROVE Untouched(x)'
  <2>1. \A s \in Slots : Used(s)' => table'[s].handle # x
    BY <1>3, <1>11 DEF Untouched, Used
  <2>2. x \in DOMAIN block' => block'[x].data = Junk
    BY <1>2, <1>4, <1>11 DEF Untouched, Effects
  <2>3. \A j \in Conns' : \A y \in Sent(j)' : y.op \in Writes => y.handle # x
    BY <1>4, <1>11 DEF Untouched
  <2> QED BY <2>1, <2>2, <2>3 DEF Untouched, Slots
<1>12. HandlesApart'
  <2>1. \A s, u \in Slots : Used(s)' /\ Used(u)' /\ table'[s].handle = table'[u].handle => s = u
    BY <1>3 DEF Used, DInv, HandlesApart
  <2>2. \A t \in Threads : call'[t].step = "insert" => \A x : x = call'[t].handle => Untouched(x)'
    BY <1>3, <1>11 DEF DInv, HandlesApart
  <2>3. \A t, u \in Threads : call'[t].step = "insert" /\ call'[u].step = "insert"
                                /\ call'[t].handle = call'[u].handle => t = u
    BY <1>3 DEF DInv, HandlesApart
  <2>4. ASSUME Allotted'
        PROVE  /\ \A x : x = resp'[link'][1].handle => Untouched(x)'
               /\ \A t \in Threads : call'[t].step = "insert" => call'[t].handle # resp'[link'][1].handle
    <3>1. link' = link /\ link # 0 /\ lock \in Threads /\ call[lock].op \in Mallocs /\ resp'[link] # <<>> /\ resp'[link][1].ok
      BY <1>3, <2>4 DEF Allotted
    <3>2. CASE resp'[link] = resp[link]
      <4>1. Allotted
        BY <3>1, <3>2 DEF Allotted
      <4> QED BY <1>3, <1>11, <3>1, <3>2, <4>1 DEF DInv, HandlesApart
    <3>3. CASE resp'[link] # resp[link]
      <4>1. resp'[link][1] = a /\ m = Message(lock)
        BY <1>10, <3>1, <3>3
      <4>2. m.op = "malloc" /\ ok /\ a.handle = h
        BY <3>1, <4>1, MessageIs DEF a
      <4>3. h = handles + 1
        BY <1>2, <4>2 DEF Effects
      <4>4. Untouched(h)'
        <5>1. \A s \in Slots : Used(s)' => table'[s].handle # h
          BY <1>1, <1>3, <4>3 DEF IInv, SlotsOK, HostShape, Slot
        <5>2. h \in DOMAIN block' => block'[h].data = Junk
          BY <1>1, <1>2, <4>2, <4>3 DEF Effects, IInv, FeederShape, Writes
        <5>3. \A j \in Conns' : \A y \in Sent(j)' : y.op \in Writes => y.handle # h
          BY <1>1, <1>4, <1>8, <4>3
        <5> QED BY <5>1, <5>2, <5>3 DEF Untouched, Slots
      <4>5. \A t \in Threads : call'[t].handle # h
        BY <1>1, <1>3, <4>3 DEF IInv, Calls, CallOK, HostShape, Call, Everyone
      <4> QED BY <3>1, <4>1, <4>2, <4>4, <4>5
    <3> QED BY <3>2, <3>3
  <2> QED BY <2>1, <2>2, <2>3, <2>4, ApartFrom
<1>13. \A p \in Ptrs : \A x : Waits(p, x)' <=> Waits(p, x)
  BY <1>3 DEF Waits
<1>14. InDoubt'
  <2> SUFFICES ASSUME NEW j \in Conns', NEW y \in Sent(j)', y.op \in Writes,
                      NEW p \in Ptrs, held'[p] # NoOne, HandleOf(p)' = y.handle
               PROVE  y.val \in lost'[p] \/ (j = link' /\ resp'[link'] = <<>> /\ Waits(p, y.val)')
    BY DEF InDoubt
  <2>1. j \in Conns /\ y \in Sent(j) /\ held[p] # NoOne /\ HandleOf(p) = y.handle
    BY <1>3, <1>4, <1>6
  <2>2. y.val \in lost[p] \/ (j = link /\ resp[link] = <<>> /\ Waits(p, y.val))
    BY <2>1 DEF DInv, InDoubt
  <2>3. ASSUME j = link, resp[link] = <<>>, Waits(p, y.val) PROVE resp'[link] = <<>>
    <3>1. Answered(y)
      BY DEF Answered, Writes
    <3>2. \A i : i = link => Sent(i)' = Sent(link)'
      BY <1>3 DEF Sent
    <3>3. y \in Sent(link)'
      BY <2>3, <3>2
    <3> QED BY <1>5, <1>10, <2>3, <3>1, <3>3 DEF Waits
  <2> QED BY <1>3, <1>13, <2>2, <2>3
\* A message that writes to the block of a pointer is in doubt.
<1>15. ASSUME NEW p \in Ptrs, held[p] # NoOne, HandleOf(p) \in DOMAIN block'
       PROVE  /\ HandleOf(p) \in DOMAIN block
              /\ \/ block'[HandleOf(p)].data = block[HandleOf(p)].data
                 \/ block'[HandleOf(p)].data \in lost[p]
                 \/ k = link /\ resp[link] = <<>> /\ Waits(p, block'[HandleOf(p)].data)
  <2>1. HandleOf(p) \in Nat /\ HandleOf(p) <= handles
    BY <1>15, HeldHas
  <2>2. HandleOf(p) # handles + 1
    BY <1>1, <2>1
  <2> QED BY <1>2, <1>4, <1>15, <2>2 DEF Effects, DInv, InDoubt
<1>16. DataTrue'
  <2> SUFFICES ASSUME NEW p \in Ptrs, held'[p] # NoOne, HandleOf(p)' \in DOMAIN block'
               PROVE  \/ block'[HandleOf(p)'].data \in {last'[p]} \cup lost'[p]
                      \/ \A x : x = block'[HandleOf(p)'].data => Waits(p, x)'
    BY DEF DataTrue, Waits
  <2>1. held[p] # NoOne /\ HandleOf(p)' = HandleOf(p) /\ last' = last /\ lost' = lost
    BY <1>3, <1>6
  <2>2. CASE block'[HandleOf(p)].data = block[HandleOf(p)].data
    BY <1>13, <1>15, <2>1, <2>2 DEF DInv, DataTrue
  <2>3. CASE block'[HandleOf(p)].data # block[HandleOf(p)].data
    BY <1>13, <1>15, <2>1, <2>3
  <2> QED BY <2>2, <2>3
<1>17. AnswersTrue'
  <2> SUFFICES ASSUME link # 0, resp'[link] # <<>>, lock \in Threads
               PROVE  /\ call[lock].op \in Writes =>
                           IF resp'[link][1].ok
                           THEN call[lock].handle \in DOMAIN block' =>
                                  block'[call[lock].handle].data \in {call[lock].val} \cup lost[call[lock].ptr]
                           ELSE call[lock].handle \notin DOMAIN block'
                      /\ call[lock].op = "d2h" /\ resp'[link][1].ok =>
                           resp'[link][1].val \in {last[call[lock].ptr]} \cup lost[call[lock].ptr]
    BY <1>3 DEF AnswersTrue
  <2> DEFINE p == call[lock].ptr
             n == call[lock].handle
  <2>1. call[lock].op \in Copies => p \in Ptrs /\ held[p] = lock /\ held[p] # NoOne /\ n = HandleOf(p)
    BY <1>1 DEF DInv, CopiesOwn
  <2>2. CASE resp'[link] = resp[link]
    BY <1>15, <2>1, <2>2 DEF DInv, AnswersTrue, Copies
  <2>3. CASE resp'[link] # resp[link]
    <3>1. resp[link] = <<>> /\ resp'[link][1] = a /\ m = Message(lock)
      BY <1>10, <2>3
    <3>2. a.ok = ok /\ a.val = v
      BY DEF a
    <3>3. call[lock].op \in Copies => m.op = call[lock].op /\ m.handle = n /\ m.val = call[lock].val
      BY <3>1 DEF Message, Copies, Writes
    <3>4. CASE call[lock].op \in Writes
      BY <1>2, <3>1, <3>2, <3>3, <3>4 DEF Effects, Copies, Writes
    <3>5. CASE call[lock].op = "d2h" /\ ok
      <4>1. n \in DOMAIN block /\ v = block[n].data
        BY <1>2, <3>3, <3>5 DEF Effects, Copies
      <4>2. ~Waits(p, v)
        BY <3>5 DEF Waits, Writes
      <4> QED BY <2>1, <3>1, <3>2, <3>5, <4>1, <4>2 DEF DInv, DataTrue, Copies, Writes
    <3> QED BY <3>1, <3>2, <3>4, <3>5 DEF Writes
  <2> QED BY <2>2, <2>3
<1> QED BY <1>7, <1>9, <1>12, <1>14, <1>16, <1>17 DEF DInv

-----------------------------------------------------------------------------
(* All other steps leave the data alone. *)

\* What the host does without per_lock.
LEMMA HostQuiet ==
  ASSUME IInv, DInv, NEW t \in Threads, lock # t, NEW c, call' = [call EXCEPT ![t] = c], c.step # "insert",
         lock' = lock, lock = NoOne \/ UNCHANGED <<link, net>>, UNCHANGED <<req, resp, block, handles>>, Conns' = Conns,
         PtrsStay, SlotsStay, HistoryShape',
         \A p \in Ptrs : held[p] \in Threads \ {t} => held'[p] = held[p],
         c.op \in Copies => /\ c.step \in {"send", "recv"} /\ c.ptr \in Ptrs /\ held'[c.ptr] = t
                            /\ c.handle = HandleOf(c.ptr) /\ held[c.ptr] = t
  PROVE  Quiet
<1>1. NoOne \notin Threads /\ call'[t] = c /\ \A u \in Threads \ {t} : call'[u] = call[u]
  BY FabricAssumption DEF IInv, HostShape, Everyone
<1>2. CopiesOwn'
  <2> SUFFICES ASSUME NEW u \in Threads, call'[u].op \in Copies
               PROVE  /\ call'[u].step \in {"send", "recv"} /\ call'[u].ptr \in Ptrs /\ held'[call'[u].ptr] = u
                      /\ \A p \in Ptrs : p = call'[u].ptr => call'[u].handle = HandleOf(p)'
    BY OwnFrom
  <2>1. CASE u = t
    BY <1>1, <2>1 DEF PtrsStay
  <2>2. CASE u # t
    <3>1. /\ call'[u] = call[u] /\ call[u].step \in {"send", "recv"} /\ call[u].ptr \in Ptrs
          /\ held[call[u].ptr] = u /\ call[u].handle = HandleOf(call[u].ptr)
      BY <1>1, <2>2 DEF DInv, CopiesOwn
    <3>2. held'[call[u].ptr] = u /\ u # NoOne
      BY <1>1, <2>2, <3>1
    <3> QED BY <3>1, <3>2 DEF PtrsStay
  <2> QED BY <2>1, <2>2
<1>3. \A k \in Conns : Sent(k)' = Sent(k)
  BY DEF Sent
<1>4. NoneSent /\ BlocksStay
  BY <1>3 DEF NoneSent, BlocksStay
<1>5. LockStays
  <2>1. CASE lock \notin Threads
    BY <2>1 DEF LockStays
  <2>2. CASE lock \in Threads
    <3>1. UNCHANGED <<link, net>> /\ link \in Conns /\ call'[lock] = call[lock]
      BY <1>1, <2>2 DEF IInv, HostShape
    <3>2. Sent(link)' = Sent(link)
      BY <3>1 DEF Sent
    <3> QED BY <2>2, <3>1, <3>2 DEF LockStays
  <2> QED BY <2>1, <2>2
<1>6. \A u \in Threads : call'[u].step = "insert" => call'[u] = call[u]
  BY <1>1
<1> QED BY <1>2, <1>4, <1>5, <1>6 DEF Quiet

\* What happens beside the threads.
LEMMA WireQuiet ==
  ASSUME IInv, DInv, \A t \in Threads : call'[t] = call[t], UNCHANGED <<table, held, last, lost>>,
         NoneSent, BlocksStay, LockStays
  PROVE  Quiet
<1>1. \A p \in Ptrs : HandleOf(p)' = HandleOf(p)
  BY DEF HandleOf, SlotOf, Slots
<1>2. PtrsStay /\ SlotsStay /\ HistoryShape'
  BY <1>1 DEF PtrsStay, SlotsStay, HistoryShape, DInv, Used
<1>3. CopiesOwn'
  <2>1. \A t \in Threads : call'[t].op \in Copies =>
          /\ call'[t].step \in {"send", "recv"} /\ call'[t].ptr \in Ptrs /\ held'[call'[t].ptr] = t
          /\ \A p \in Ptrs : p = call'[t].ptr => call'[t].handle = HandleOf(p)'
    BY <1>1 DEF DInv, CopiesOwn
  <2> QED BY <2>1, OwnFrom
<1> QED BY <1>2, <1>3 DEF Quiet

\* The table and the pointers are as they were.
LEMMA AllStays ==
  ASSUME DInv, UNCHANGED <<table, held, last, lost>>
  PROVE  PtrsStay /\ SlotsStay /\ HistoryShape' /\ \A p \in Ptrs : held'[p] = held[p]
BY DEF PtrsStay, SlotsStay, HistoryShape, DInv, Used, HandleOf, SlotOf, Slots

LEMMA BeginIsQuiet ==
  ASSUME ~Careless, IInv, DInv, [Next]_fabric, NEW t \in Threads, Begin(t)
  PROVE  Quiet
<1>1. IInv' /\ t \in Everyone /\ NoOne \notin Threads
  BY IInvStep, FabricAssumption DEF Everyone
<1>2. call[t] = Idle /\ lock # t
  BY <1>1, IdleIsProper DEF Begin, Request, MemInfo, Copy, Launch, Free, Starts, IInv, Calls, CallOK
<1>3. UNCHANGED <<link, lock, net, req, resp, block, handles>> /\ Conns' = Conns
  BY DEF Begin, Request, MemInfo, Copy, Launch, Free, wire, feeder, Conns
<1>4. CASE Request(t) \/ MemInfo(t)
  <2>1. UNCHANGED <<table, held, last, lost>>
    BY <1>4 DEF Request, MemInfo, history
  <2>2. PICK op \in {"malloc", "malloc_tier", "note", "mem_info"} : Starts(t, op, "send", NoPtr, Junk)
    BY <1>4 DEF Request, MemInfo
  <2> DEFINE c == [op |-> op, step |-> "send", ptr |-> NoPtr, val |-> Junk, slot |-> 0, handle |-> 0]
  <2>3. call' = [call EXCEPT ![t] = c] /\ c.op \notin Copies /\ c.step = "send"
    BY <2>2 DEF Starts, Copies, Writes
  <2> HIDE DEF c
  <2> QED BY <1>2, <1>3, <2>1, <2>3, AllStays, HostQuiet
<1>5. CASE Copy(t)
  <2>1. UNCHANGED <<table, held, last, lost>>
    BY <1>5 DEF Copy, history
  <2>2. PICK p \in Ptrs, op \in Copies, v \in Datum : held[p] = t /\ Starts(t, op, "send", p, v)
    BY <1>5 DEF Copy, Copies, Writes, Datum
  <2> DEFINE c == [op |-> op, step |-> "send", ptr |-> p, val |-> v, slot |-> SlotOf(p), handle |-> HandleOf(p)]
  <2>3. call' = [call EXCEPT ![t] = c] /\ c.step = "send" /\ c.ptr = p /\ c.handle = HandleOf(p)
    BY <2>2, FabricAssumption DEF Starts, HandleOf
  <2> HIDE DEF c
  <2> QED BY <1>2, <1>3, <2>1, <2>2, <2>3, AllStays, HostQuiet
<1>6. CASE Launch(t)
  <2>1. PICK p \in Mapped, c \in Call :
           /\ call' = [call EXCEPT ![t] = c] /\ c.op = "exec" /\ c.step = "send"
           /\ table' = [table EXCEPT ![SlotOf(p)].refs = @ + 1]
    BY <1>6, LaunchEffect
  <2>2. UNCHANGED <<held, last, lost>> /\ SlotOf(p) \in Slots
    BY <1>6, SlotOfMapped DEF Launch, history, IInv
  <2>3. \A s \in Slots : table'[s].ptr = table[s].ptr /\ table'[s].handle = table[s].handle
    BY <2>1, <2>2 DEF IInv, HostShape, Slot
  <2>4. SlotsStay
    BY <2>3 DEF SlotsStay, Used
  <2>5. PtrsStay
    BY <1>1, <2>2, <2>3, HandleKept DEF PtrsStay
  <2>6. HistoryShape' /\ c.op \notin Copies
    BY <2>1, <2>2 DEF DInv, HistoryShape, Copies, Writes
  <2> QED BY <1>2, <1>3, <2>1, <2>2, <2>4, <2>5, <2>6, HostQuiet
<1>7. CASE Free(t)
  <2>1. PICK p \in Ptrs : /\ held[p] = t /\ Starts(t, "free", "spin", p, Junk) /\ held' = [held EXCEPT ![p] = NoOne]
                          /\ last' = [last EXCEPT ![p] = Junk] /\ lost' = [lost EXCEPT ![p] = {}] /\ table' = table
    BY <1>7 DEF Free
  <2> DEFINE c == [op |-> "free", step |-> "spin", ptr |-> p, val |-> Junk, slot |-> SlotOf(p), handle |-> HandleOf(p)]
  <2>2. call' = [call EXCEPT ![t] = c] /\ c.step = "spin" /\ c.op \notin Copies
    BY <2>1, FabricAssumption DEF Starts, HandleOf, Copies, Writes
  <2> HIDE DEF c
  <2>3. held'[p] = NoOne /\ \A q \in Ptrs \ {p} : held'[q] = held[q] /\ last'[q] = last[q] /\ lost'[q] = lost[q]
    BY <2>1 DEF IInv, HostShape, DInv, HistoryShape
  <2>4. \A q \in Ptrs : HandleOf(q)' = HandleOf(q)
    BY <2>1 DEF HandleOf, SlotOf, Slots
  <2>5. PtrsStay /\ SlotsStay
    BY <2>1, <2>3, <2>4 DEF PtrsStay, SlotsStay, Used
  <2>6. HistoryShape'
    BY <2>1 DEF DInv, HistoryShape, Datum
  <2>7. \A q \in Ptrs : held[q] \in Threads \ {t} => held'[q] = held[q]
    BY <2>1, <2>3
  <2> QED BY <1>2, <1>3, <2>2, <2>5, <2>6, <2>7, HostQuiet
<1> QED BY <1>4, <1>5, <1>6, <1>7 DEF Begin

\* A thread goes on without the feeder, unless it is to use a new block.
LEMMA GoesIsQuiet ==
  ASSUME ~Careless, IInv, DInv, [Next]_fabric, NEW t \in Threads, Goes(t)
  PROVE  Quiet \/ \E s \in Slots, p \in Ptrs : Enters(t, s, p)
<1>1. IInv' /\ t \in Everyone /\ NoOne \notin Threads /\ call[t] \in Call
  BY IInvStep, FabricAssumption DEF Everyone, IInv, HostShape
<1>2. lock # t
  BY <1>1 DEF Goes, Spun, Unuse, Insert, Release, IInv, Calls, CallOK
<1>3. UNCHANGED <<link, lock, net, req, resp, block, handles>> /\ Conns' = Conns
  BY DEF Goes, Spun, Unuse, Insert, Release, wire, feeder, Conns
<1>4. Idle.step # "insert" /\ Idle.op \notin Copies
  BY IdleIsProper DEF Copies, Writes
<1>5. CASE Spun(t)
  <2> DEFINE c == [call[t] EXCEPT !.step = "unuse"]
  <2>1. call' = [call EXCEPT ![t] = c] /\ UNCHANGED <<table, held, last, lost>>
    BY <1>1, <1>5 DEF Spun, history
  <2>2. c.step = "unuse" /\ c.op = "free"
    BY <1>1, <1>5 DEF Spun, Call, IInv, Calls, CallOK, Proper
  <2> HIDE DEF c
  <2> QED BY <1>2, <1>3, <2>1, <2>2, AllStays, HostQuiet DEF Copies, Writes
<1>6. CASE Unuse(t)
  <2> DEFINE s == call[t].slot
             p == call[t].ptr
             c == IF link = 0 THEN Idle ELSE [call[t] EXCEPT !.step = "send"]
  <2>1. /\ table' = [table EXCEPT ![s].ptr = NoPtr, ![s].handle = 0] /\ UNCHANGED <<held, last, lost>>
        /\ call' = [call EXCEPT ![t] = c] /\ call[t].step = "unuse" /\ call[t].op = "free"
    BY <1>1, <1>6 DEF Unuse, history, At, IInv, Calls, CallOK, Proper
  <2>2. s \in Slots /\ p \in Ptrs /\ held[p] = NoOne /\ table[s].ptr = p
    BY <2>1 DEF Freeing, IInv, SlotsOK
  <2>3. table'[s].ptr = NoPtr /\ \A u \in Slots \ {s} : table'[u] = table[u]
    BY <2>1, <2>2 DEF IInv, HostShape, Slot
  <2>4. SlotsStay
    BY <2>3 DEF SlotsStay, Used
  <2>5. PtrsStay
    <3> SUFFICES ASSUME NEW q \in Ptrs, held'[q] # NoOne PROVE HandleOf(q)' = HandleOf(q)
      BY <2>1 DEF PtrsStay
    <3>1. q # NoPtr
      BY FabricAssumption
    <3>2. \A u \in Slots : table'[u].ptr = q => table[u].ptr = q /\ table'[u].handle = table[u].handle
      BY <2>3, <3>1
    <3> QED BY <1>1, <3>2, HandleKept
  <2>6. c.step # "insert" /\ c.op \notin Copies /\ HistoryShape'
    BY <1>1, <1>4, <2>1 DEF Call, Copies, Writes, DInv, HistoryShape
  <2> HIDE DEF c
  <2> QED BY <1>2, <1>3, <2>1, <2>4, <2>5, <2>6, HostQuiet
<1>7. CASE Insert(t)
  <2>1. call[t].step = "insert" /\ call[t].op \in Mallocs
    BY <1>7, InsertEffect
  <2>2. CASE call' = [call EXCEPT ![t].op = "undo", ![t].step = "send"] /\ UNCHANGED <<table, history>>
    <3> DEFINE c == [call[t] EXCEPT !.op = "undo", !.step = "send"]
    <3>1. c.op = "undo" /\ c.step = "send" /\ call' = [call EXCEPT ![t] = c] /\ UNCHANGED <<table, held, last, lost>>
      BY <1>1, <2>2 DEF Call, history
    <3> HIDE DEF c
    <3> QED BY <1>2, <1>3, <3>1, AllStays, HostQuiet DEF Copies, Writes
  <2>3. CASE call' = [call EXCEPT ![t] = Idle] /\ UNCHANGED <<table, held, last, lost>>
    BY <1>2, <1>3, <1>4, <2>3, AllStays, HostQuiet
  <2>4. CASE \E s \in Slots, p \in Ptrs \ Mapped :
               /\ table[s].ptr = NoPtr
               /\ table' = [table EXCEPT ![s].ptr = p, ![s].handle = call[t].handle]
               /\ held' = [held EXCEPT ![p] = t]
               /\ last' = [last EXCEPT ![p] = Junk] /\ lost' = [lost EXCEPT ![p] = {}]
               /\ call' = [call EXCEPT ![t] = Idle]
    BY <1>3, <2>1, <2>4 DEF Enters
  <2> QED BY <1>7, <2>2, <2>3, <2>4 DEF Insert
<1>8. CASE Release(t)
  <2>1. /\ call[t].op = "exec" /\ call' = [call EXCEPT ![t] = Idle] /\ UNCHANGED <<held, last, lost>>
    BY <1>1, <1>8 DEF Release, history, IInv, Calls, CallOK, Proper
  <2>2. call[t].slot \in Slots /\ table' = [table EXCEPT ![call[t].slot].refs = @ - 1]
    BY <1>8, <2>1, LaunchHas DEF Release
  <2>3. \A s \in Slots : table'[s].ptr = table[s].ptr /\ table'[s].handle = table[s].handle
    BY <2>2 DEF IInv, HostShape, Slot
  <2>4. SlotsStay
    BY <2>3 DEF SlotsStay, Used
  <2>5. PtrsStay
    BY <1>1, <2>1, <2>3, HandleKept DEF PtrsStay
  <2>6. HistoryShape'
    BY <2>1 DEF DInv, HistoryShape
  <2> QED BY <1>2, <1>3, <1>4, <2>1, <2>4, <2>5, <2>6, HostQuiet
<1> QED BY <1>5, <1>6, <1>7, <1>8 DEF Goes

\* A connection that is opened is one more.
LEMMA OpenedConns ==
  ASSUME IInv, NEW first \in Seq(Msg), Opened(first)
  PROVE  /\ link' \in Conns' \ Conns /\ link' \notin Conns /\ Conns' = Conns \cup {link'}
         /\ req'[link'] = first /\ resp'[link'] = <<>>
         /\ (\A k \in Conns : req'[k] = req[k]) /\ UNCHANGED block
<1>1. Conns = 1 .. Len(net) /\ Len(net) \in Nat
  BY ConnsAre DEF IInv
<1>2. /\ link' = Len(net) + 1 /\ Conns' = 1 .. Len(net) + 1 /\ link' \in Conns' \ Conns
      /\ req'[link'] = first /\ resp'[link'] = <<>>
      /\ (\A k \in Conns : req'[k] = req[k]) /\ UNCHANGED block
  BY OpenedEffect
<1> QED BY <1>1, <1>2

\* A thread wants per_lock.
LEMMA LockedIsQuiet ==
  ASSUME ~Careless, IInv, DInv, [Next]_fabric, NEW t \in Threads, Locked(t)
  PROVE  Quiet \/ Takes(t)
<1>1. /\ NoOne \notin Threads /\ t \in Everyone /\ t # NoOne /\ call[t] \in Call /\ call[t].step = "send" /\ lock = NoOne
      /\ Idle.step # "insert" /\ Idle.op \notin Copies
  BY FabricAssumption, IdleIsProper
  DEF Everyone, IInv, HostShape, Locked, Send, SendFails, MemInfoConnects, Copies, Writes
<1>2. UNCHANGED <<table, block, handles, held, last, lost>>
  BY DEF Locked, Send, SendFails, MemInfoConnects, Opened, feeder, history
<1>3. CASE Send(t)
  <2>1. /\ link # 0 /\ link \in Conns /\ net[link] = "up" /\ resp[link] = <<>>
        /\ \A i \in 1 .. Len(req[link]) : ~Answered(req[link][i])
    BY <1>1, <1>3, LockFree DEF Send, Alive
  <2>2. /\ req' = [req EXCEPT ![link] = Append(@, Message(t))] /\ UNCHANGED <<link, net, resp>> /\ Conns' = Conns
    BY <1>3 DEF Send, Conns
  <2>3. Members(Append(req[link], Message(t))) = Members(req[link]) \cup {Message(t)}
    BY <2>1, SentAre, MessageIs, MembersOf
  <2>4. \A k \in Conns : req'[k] = IF k = link THEN Append(req[k], Message(t)) ELSE req[k]
    BY <2>1, <2>2 DEF IInv, WireShape
  <2>5. \A k \in Conns : Sent(k)' = IF k = link THEN Sent(k) \cup {Message(t)} ELSE Sent(k)
    BY <2>3, <2>4 DEF Sent
  <2>6. CASE call[t].op = "note"
    <3>1. lock' = lock /\ call' = [call EXCEPT ![t] = Idle]
      BY <1>3, <2>6 DEF Send
    <3>2. Message(t).op = "note" /\ Message(t).handle \in Nat /\ Message(t).handle <= handles'
      BY <1>1, <1>2, <2>6, MessageIs DEF IInv, Calls, CallOK, Call
    <3>3. NoneSent
      BY <2>2, <2>5, <3>2 DEF NoneSent, Writes
    <3>4. /\ \A u \in Threads : call'[u].step = "insert" => call'[u] = call[u]
          /\ \A u \in Threads : call'[u].op \in Copies => call'[u] = call[u]
      BY <1>1, <3>1 DEF IInv, HostShape
    <3>5. CopiesOwn'
      <4>1. \A u \in Threads : call'[u].op \in Copies =>
              /\ call'[u].step \in {"send", "recv"} /\ call'[u].ptr \in Ptrs /\ held'[call'[u].ptr] = u
              /\ \A p \in Ptrs : p = call'[u].ptr => call'[u].handle = HandleOf(p)'
        BY <1>2, <3>4 DEF DInv, CopiesOwn, HandleOf, SlotOf, Slots
      <4> QED BY <4>1, OwnFrom
    <3>6. PtrsStay /\ SlotsStay /\ HistoryShape'
      BY <1>2, AllStays
    <3> QED BY <1>1, <1>2, <3>1, <3>3, <3>4, <3>5, <3>6 DEF Quiet, BlocksStay, LockStays
  <2>7. CASE call[t].op # "note"
    <3>1. lock' = t /\ call' = [call EXCEPT ![t].step = "recv"]
      BY <1>3, <2>7 DEF Send
    <3>2. \A m \in Sent(link) : ~Answered(m)
      BY <2>1 DEF Sent, Members
    <3> QED BY <1>1, <1>2, <2>1, <2>2, <2>5, <3>1, <3>2 DEF Takes
  <2> QED BY <2>6, <2>7
<1>4. CASE SendFails(t)
  <2>1. call' = [call EXCEPT ![t] = GivenUp(call[t])] /\ Conns' = Conns
    BY <1>4, FailedEffect, <1>1 DEF SendFails, Conns
  <2>2. UNCHANGED <<lock, req, resp>>
    BY <1>4 DEF SendFails
  <2>3. GivenUp(call[t]).step # "insert" /\ GivenUp(call[t]).op \notin Copies
    BY <1>1, GivenUpIs DEF Copies, Writes, Call
  <2> QED BY <1>1, <1>2, <2>1, <2>2, <2>3, AllStays, HostQuiet
<1>5. CASE MemInfoConnects(t)
  <2>1. CASE Opened(<<Message(t)>>) /\ call' = [call EXCEPT ![t].step = "recv"] /\ lock' = t
    <3> DEFINE first == <<Message(t)>>
    <3>1. first \in Seq(Msg) /\ Opened(first) /\ Members(first) = {Message(t)}
      BY <2>1, MessageIs DEF Members
    <3> HIDE DEF first
    <3>2. /\ link' \in Conns' \ Conns /\ req'[link'] = first /\ resp'[link'] = <<>>
          /\ \A k \in Conns : req'[k] = req[k]
          /\ Conns' = Conns \cup {link'}
      BY <3>1, OpenedConns
    <3>3. /\ \A k \in Conns : Sent(k)' = Sent(k)
          /\ \A k : k = link' => Sent(k)' = {Message(t)}
      BY <3>1, <3>2 DEF Sent
    <3>4. \A k \in Conns' : \A m \in Sent(k)' :
             \/ k \in Conns /\ m \in Sent(k) /\ k # link'
             \/ k = link' /\ m = Message(t)
      BY <3>2, <3>3
    <3> QED BY <1>1, <1>2, <2>1, <3>2, <3>4 DEF Takes
  <2>2. CASE call' = [call EXCEPT ![t] = Idle] /\ UNCHANGED <<link, lock, wire, feeder>>
    <3>1. UNCHANGED <<link, lock, net, req, resp, block, handles>> /\ Conns' = Conns
      BY <2>2 DEF wire, feeder, Conns
    <3> QED BY <1>1, <1>2, <2>2, <3>1, AllStays, HostQuiet
  <2> QED BY <1>5, <2>1, <2>2 DEF MemInfoConnects
<1> QED BY <1>3, <1>4, <1>5 DEF Locked

\* The heartbeat thread, the loss of a connection and the feeder's end of it.
LEMMA RestIsQuiet ==
  ASSUME ~Careless, IInv, DInv, [Next]_fabric,
         \/ Recv(Hb) \/ RecvFails(Hb) \/ Reconnect \/ Beat
         \/ \E k \in Conns : ClientCleanup(k) \/ Cut(k)
         \/ Restart \/ UNCHANGED fabric
  PROVE  Quiet
<1>1. /\ NoOne \notin Threads /\ Hb \notin Threads /\ Hb \in Everyone /\ Threads \subseteq Everyone
      /\ call \in [Everyone -> Call] /\ call[Hb].op \notin Writes
      /\ lock \in Threads => link \in Conns
  BY FabricAssumption DEF Everyone, IInv, HostShape, Calls, CallOK, Writes
<1>2. ASSUME \A k \in Conns : req'[k] = req[k], Conns' = Conns
      PROVE  NoneSent /\ \A k \in Conns : Sent(k)' = Sent(k)
  <2>1. \A k \in Conns : Sent(k)' = Sent(k)
    BY <1>2 DEF Sent
  <2> QED BY <1>2, <2>1 DEF NoneSent
<1>3. ASSUME UNCHANGED block PROVE BlocksStay
  BY <1>3 DEF BlocksStay
<1>4. ASSUME Recv(Hb) \/ RecvFails(Hb)
      PROVE  Quiet
  <2>1. lock = Hb /\ lock' = NoOne /\ UNCHANGED <<table, req, block, held, last, lost>>
        /\ (\E c : call' = [call EXCEPT ![Hb] = c]) /\ Conns' = Conns
    <3>1. CASE Recv(Hb)
      <4>1. /\ lock = Hb /\ lock' = NoOne /\ UNCHANGED <<table, net, req, block, held>>
            /\ \E c : call' = [call EXCEPT ![Hb] = c]
        BY <1>1, <3>1, RecvEffect DEF feeder
      <4>2. UNCHANGED <<last, lost>>
        BY <1>1, <3>1 DEF Recv, Writes
      <4> QED BY <4>1, <4>2 DEF Conns
    <3>2. CASE RecvFails(Hb)
      <4>1. Failed(Hb) /\ lock = Hb /\ lock' = NoOne /\ UNCHANGED <<table, req, block, held, last>>
        BY <3>2 DEF RecvFails, feeder
      <4>2. (\E c : call' = [call EXCEPT ![Hb] = c]) /\ Conns' = Conns
        BY <1>1, <4>1, FailedEffect DEF Conns
      <4>3. lost' = lost
        BY <1>1, <3>2 DEF RecvFails, Writes
      <4> QED BY <4>1, <4>2, <4>3
    <3> QED BY <1>4, <3>1, <3>2
  <2>2. \A t \in Threads : call'[t] = call[t]
    BY <1>1, <2>1
  <2>3. LockStays
    BY <1>1, <2>1 DEF LockStays
  <2> QED BY <1>2, <1>3, <2>1, <2>2, <2>3, WireQuiet
<1>5. CASE Reconnect
  <2> DEFINE none == <<>>
  <2>1. none \in Seq(Msg) /\ Opened(none) /\ Members(none) = {}
    BY <1>5 DEF Reconnect, Members
  <2> HIDE DEF none
  <2>2. /\ Conns' = Conns \cup {link'} /\ link' \notin Conns /\ req'[link'] = none
        /\ (\A k \in Conns : req'[k] = req[k]) /\ UNCHANGED block
    BY <2>1, OpenedConns
  <2>3. NoneSent
    <3>1. /\ \A k \in Conns : Sent(k)' = Sent(k)
          /\ \A k : k = link' => Sent(k)' = {}
      BY <2>1, <2>2 DEF Sent
    <3> QED BY <2>2, <3>1 DEF NoneSent
  <2>4. lock = NoOne /\ UNCHANGED <<lock, call, table, held, last, lost>>
    BY <1>5 DEF Reconnect, history
  <2> QED BY <1>1, <1>3, <2>2, <2>3, <2>4, WireQuiet DEF LockStays
<1>6. CASE Beat
  <2>1. /\ lock = NoOne /\ lock' \notin Threads /\ (\A t \in Threads : call'[t] = call[t])
        /\ UNCHANGED <<table, block, handles, held, last, lost>> /\ link \in Conns /\ Conns' = Conns
    BY <1>1, <1>6 DEF Beat, feeder, history, IInv, HostShape, Conns
  <2>2. NoneSent
    <3> DEFINE m == [op |-> "beat", of |-> Hb, handle |-> 0, val |-> Junk]
    <3>1. req' = req \/ req' = [req EXCEPT ![link] = Append(@, m)]
      BY <1>6 DEF Beat
    <3>2. m \in Msg /\ m.op \notin Writes /\ m.handle <= handles'
      BY <1>1, <2>1 DEF Msg, Ops, Datum, Writes, IInv, FeederShape
    <3> HIDE DEF m
    <3>3. Members(Append(req[link], m)) = Members(req[link]) \cup {m}
      BY <2>1, <3>2, SentAre, MembersOf
    <3>4. \A k \in Conns : req'[k] = req[k] \/ (k = link /\ req'[k] = Append(req[k], m))
      BY <2>1, <3>1 DEF IInv, WireShape
    <3>5. \A k \in Conns : Sent(k)' = Sent(k) \/ Sent(k)' = Sent(k) \cup {m}
      BY <3>3, <3>4 DEF Sent
    <3> QED BY <2>1, <3>2, <3>5 DEF NoneSent
  <2> QED BY <1>1, <1>3, <2>1, <2>2, WireQuiet DEF LockStays
\* Messages and blocks that go.
<1>7. ASSUME UNCHANGED <<host, held, last, lost>>, Conns' = Conns,
             \A k \in Conns : /\ req'[k] = req[k] \/ req'[k] = <<>>
                              /\ resp'[k] = resp[k] \/ resp'[k] = <<>>
                              /\ net'[k] = "up" => net[k] = "up",
             DOMAIN block' \subseteq DOMAIN block, \A h \in DOMAIN block' : block'[h] = block[h]
      PROVE  Quiet
  <2>1. UNCHANGED <<link, lock, table, call>>
    BY <1>7 DEF host
  <2>2. \A k \in Conns : Sent(k)' \subseteq Sent(k)
    <3>1. Members(<<>>) = {}
      BY DEF Members
    <3> QED BY <1>7, <3>1 DEF Sent
  <2>3. \A k : k = link => Sent(k)' = Sent(link)'
    BY <2>1 DEF Sent
  <2>4. NoneSent /\ BlocksStay
    BY <1>7, <2>2 DEF NoneSent, BlocksStay
  <2>5. LockStays
    <3>1. CASE lock \notin Threads
      BY <2>1, <3>1 DEF LockStays
    <3>2. CASE lock \in Threads
      <4>1. link \in Conns /\ Sent(link)' \subseteq Sent(link)
        BY <1>1, <2>2, <2>3, <3>2
      <4> QED BY <1>7, <2>1, <3>2, <4>1 DEF LockStays
    <3> QED BY <3>1, <3>2
  <2> QED BY <1>7, <2>1, <2>4, <2>5, WireQuiet
<1>8. ASSUME NEW k \in Conns, ClientCleanup(k) \/ Cut(k)
      PROVE  Quiet
  <2>1. /\ UNCHANGED <<host, held, last, lost>> /\ net' = [net EXCEPT ![k] = "cut"]
        /\ req' = req \/ req' = [req EXCEPT ![k] = <<>>]
        /\ resp' = resp \/ resp' = [resp EXCEPT ![k] = <<>>]
        /\ DOMAIN block' \subseteq DOMAIN block /\ \A h \in DOMAIN block' : block'[h] = block[h]
    BY <1>8 DEF ClientCleanup, Cut, host, feeder, history, Drop
  <2>2. Conns' = Conns /\ \A j \in Conns : net'[j] = "up" => net[j] = "up"
    BY <2>1 DEF Conns, IInv, WireShape
  <2>3. \A j \in Conns : /\ req'[j] = req[j] \/ req'[j] = <<>>
                         /\ resp'[j] = resp[j] \/ resp'[j] = <<>>
    BY <2>1 DEF IInv, WireShape
  <2> QED BY <1>7, <2>1, <2>2, <2>3
<1>9. CASE Restart
  <2>1. /\ UNCHANGED <<host, resp, held, last, lost>> /\ net' = [k \in Conns |-> "cut"]
        /\ req' = [k \in Conns |-> <<>>] /\ DOMAIN block' = {}
    BY <1>9 DEF Restart
  <2>2. Conns' = Conns
    BY <2>1 DEF Conns
  <2> QED BY <1>7, <2>1, <2>2
<1>10. CASE UNCHANGED fabric
  BY <1>7, <1>10 DEF fabric, host, wire, feeder, history, Conns
<1> QED BY <1>4, <1>5, <1>6, <1>8, <1>9, <1>10

LEMMA DataStep == ASSUME ~Careless, ~CudaFails, IInv, DInv, [Next]_fabric PROVE DInv'
<1>1. ASSUME NEW t \in Threads, Begin(t) PROVE DInv'
  BY <1>1, BeginIsQuiet, QuietKeeps
<1>2. ASSUME NEW t \in Threads, Locked(t) PROVE DInv'
  BY <1>2, LockedIsQuiet, QuietKeeps, TakesKeeps
<1>3. ASSUME NEW t \in Threads, Goes(t) PROVE DInv'
  BY <1>3, GoesIsQuiet, QuietKeeps, EntersKeeps
<1>4. ASSUME NEW t \in Threads, Ends(t) PROVE DInv'
  BY <1>4, RecvKeeps, RecvFailsKeeps DEF Ends
<1>5. ASSUME NEW k \in Conns, Serve(k) PROVE DInv'
  BY <1>5, ServeKeeps
<1>6. ASSUME \/ Ends(Hb) \/ Reconnect \/ Beat
             \/ \E k \in Conns : ClientCleanup(k) \/ Cut(k)
             \/ Restart \/ UNCHANGED fabric
      PROVE  DInv'
  BY <1>6, RestIsQuiet, QuietKeeps DEF Ends
<1> QED BY <1>1, <1>2, <1>3, <1>4, <1>5, <1>6 DEF Next, Everyone

LEMMA InitDInv == Init => DInv
<1> SUFFICES ASSUME Init PROVE DInv
  OBVIOUS
<1> USE FabricAssumption DEF Init
<1>1. Conns = {} /\ link = 0 /\ DOMAIN block = {}
  BY DEF Conns
<1>2. \A t \in Threads : call[t].op = "idle" /\ call[t].step = "idle"
  BY IdleIsProper DEF Everyone
<1>3. \A s \in Slots : ~Used(s)
  BY DEF Used
<1>4. HistoryShape
  BY DEF HistoryShape, Datum
<1>5. CopiesOwn
  BY <1>2 DEF CopiesOwn, Copies, Writes
<1>6. Asked /\ InDoubt /\ AnswersTrue
  BY <1>1 DEF Asked, InDoubt, AnswersTrue
<1>7. HandlesApart
  BY <1>1, <1>2, <1>3 DEF HandlesApart, Allotted
<1>8. DataTrue
  BY DEF DataTrue
<1> QED BY <1>4, <1>5, <1>6, <1>7, <1>8 DEF DInv

\* What is on the wire and in the blocks is what the pointers' owners have written, as long
\* as the feeder's GPU does what it is asked.
THEOREM DataInvariance == ASSUME ~Careless, ~CudaFails PROVE Spec => [](IInv /\ DInv)
<1>1. Init => IInv /\ DInv
  BY InitIInv, InitDInv
<1>2. IInv /\ DInv /\ [Next]_fabric => (IInv /\ DInv)'
  BY IInvStep, DataStep
<1> QED BY <1>1, <1>2, PTL DEF Spec

\* gb_netc_memcpy_d2h gives the last write that was reported done, or one whose fate is
\* unknown, and never what another block holds.
THEOREM ReadsAreTrue == ASSUME ~Careless, ~CudaFails PROVE Spec => ReadsTrue
<1> DEFINE A == \A t \in Threads :
                  call[t].op = "d2h" /\ call[t].step = "recv" /\ call'[t] = Idle /\ resp[link] # <<>>
                    /\ Head(resp[link]).ok
                  => Head(resp[link]).val \in {last[call[t].ptr]} \cup lost[call[t].ptr]
<1>1. IInv /\ DInv => A
  <2> SUFFICES ASSUME IInv, DInv, NEW t \in Threads, call[t].op = "d2h", call[t].step = "recv",
                      resp[link] # <<>>, Head(resp[link]).ok
               PROVE  Head(resp[link]).val \in {last[call[t].ptr]} \cup lost[call[t].ptr]
    OBVIOUS
  <2>1. lock = t /\ t # NoOne /\ link # 0 /\ link \in Conns
    BY FabricAssumption DEF IInv, HostShape, Calls, CallOK, Everyone
  <2>2. Head(resp[link]) = resp[link][1]
    BY <2>1, SentAre
  <2> QED BY <2>1, <2>2 DEF DInv, AnswersTrue
<1>2. Spec => [](IInv /\ DInv)
  BY DataInvariance
<1>3. Spec => [][A]_fabric
  BY <1>1, <1>2, PTL
<1> QED BY <1>3 DEF ReadsTrue
=============================================================================
