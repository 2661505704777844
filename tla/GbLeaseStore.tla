----------------------------- MODULE GbLeaseStore ----------------------------
(***************************************************************************)
(* What gb_lease.py promises of its state file: every operation of the      *)
(* arbiter is one atomic step on the state, and only a damaged state is     *)
(* ever set aside.  GbLease is built on this; GbLeaseFile, which has the    *)
(* lock, the file and the crashes, implements it.                           *)
(*                                                                          *)
(* Which leases fit together is GbLease's subject: here each job asks for   *)
(* the whole card, and waiters are served in the order of arrival.          *)
(***************************************************************************)
EXTENDS Integers

CONSTANTS
  Clients,    \* processes that take the card
  Damaged,    \* a state.json that cannot be parsed
  MaxHarm     \* bound: how often the file is damaged

VARIABLES store, living, harms

Entries == [name : Clients, seq : Nat, token : Nat]
States == [token : Nat, seq : Nat, entries : SUBSET Entries]

\* No state.json is an empty one.
EmptyStore == [token |-> 0, seq |-> 0, entries |-> {}]

\* An entry with token 0 is queued, one with a token is granted.
Granted(s) == {e \in s.entries : e.token # 0}
Of(s, p) == {e \in s.entries : e.name = p}
TokenIn(s, p) == IF Of(s, p) = {} THEN 0 ELSE (CHOOSE e \in Of(s, p) : TRUE).token

\* Entries of processes that are gone, and of waiters that poll no longer.
Prune(s, gone) == [s EXCEPT !.entries = {e \in @ : e.name \notin gone}]

\* _admit: the head of the queue, if the card is free.
Ahead(s, e) == \A f \in s.entries : e.seq <= f.seq

Admit(s) ==
  IF s.entries = {} \/ Granted(s) # {} THEN s
  ELSE [s EXCEPT !.token = @ + 1,
                 !.entries = {IF Ahead(s, e) THEN [e EXCEPT !.token = s.token + 1] ELSE e : e \in @}]

\* acquire: a second call with the key is a poll; wait=False leaves no waiter.
Queued(s, p) ==
  IF Of(s, p) # {} THEN s
  ELSE [s EXCEPT !.seq = @ + 1, !.entries = @ \cup {[name |-> p, seq |-> s.seq + 1, token |-> 0]}]

Ask(s, p, wait) ==
  LET in == Admit(Queued(s, p)) IN IF wait \/ TokenIn(in, p) # 0 THEN in ELSE Prune(in, {p})

\* release: the token, if the caller gives one, has to be the record's.
Leave(s, p, token) == IF token \in {0, TokenIn(s, p)} THEN Prune(s, {p}) ELSE s

\* What an operation of p does with the state, the release with a stale token included.
Bodies(s, p) == {Ask(s, p, TRUE), Ask(s, p, FALSE), Prune(s, {p}), s}

-----------------------------------------------------------------------------
Init == store = EmptyStore /\ living = Clients /\ harms = 0

\* One transaction.  What it prunes was seen dead, or had stopped to poll.
Operate(p) ==
  /\ p \in living /\ store # Damaged
  /\ \E gone \in SUBSET {q \in Clients : q \notin living \/ TokenIn(store, q) = 0} :
       \E body \in Bodies(Prune(store, gone), p) : store' = Admit(body)
  /\ UNCHANGED <<living, harms>>

Die(p) == p \in living /\ living' = living \ {p} /\ UNCHANGED <<store, harms>>

Damage ==
  /\ harms < MaxHarm /\ store # Damaged
  /\ store' = Damaged /\ harms' = harms + 1
  /\ UNCHANGED living

SetAside == store = Damaged /\ store' = EmptyStore /\ UNCHANGED <<living, harms>>

Next == (\E p \in Clients : Operate(p) \/ Die(p)) \/ Damage \/ SetAside

Spec == Init /\ [][Next]_<<store, living, harms>>
==============================================================================
