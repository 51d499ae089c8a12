---------------------------- MODULE AtomicStore ----------------------------
(***************************************************************************)
(* What the key-value store kexswiftdb promises its callers: every write   *)
(* takes effect in one step, on the value its caller was told it replaces. *)
(* A key whose time to live is over may be seen as gone or, by a call that *)
(* was under way, with its last value, until it is written again.          *)
(***************************************************************************)
EXTENDS Integers

CONSTANTS Keys

VARIABLES
    value,   \* [Keys -> Nat \union {Absent}]
    life,    \* [Keys -> {"none", "live", "expired"}]
    effect   \* the last write: what it was and what it replaced by what

avars == <<value, life, effect>>

Absent == -1

AInit ==
    /\ value = [k \in Keys |-> Absent]
    /\ life = [k \in Keys |-> "none"]
    /\ effect = [op |-> "none", keys |-> {}, from |-> Absent, to |-> Absent]

Seen(k) == IF life[k] = "live" THEN {value[k]}
           ELSE IF life[k] = "expired" THEN {value[k], Absent} ELSE {Absent}

Put(op, k, from, to) ==
    /\ value' = [value EXCEPT ![k] = to]
    /\ life' = [life EXCEPT ![k] = "live"]
    /\ effect' = [op |-> op, keys |-> {k}, from |-> from, to |-> to]

Clear(op, K, from) ==
    /\ value' = [k \in Keys |-> IF k \in K THEN Absent ELSE value[k]]
    /\ life' = [k \in Keys |-> IF k \in K THEN "none" ELSE life[k]]
    /\ effect' = [op |-> op, keys |-> K, from |-> from, to |-> Absent]

\* The value a call writes is the caller's choice; effect' says what it was.
Written == effect'.to

\* Unconditional writes.
Overwrite(k) == Put("set", k, Absent, Written)

Remove(K) == Clear("delete", K, Absent) \/ Clear("clear", K, Absent)

\* Conditional writes act on what is there.
Increment(k) == \E old \in Seen(k) : Put("incr", k, old, old + (IF old = Absent THEN 2 ELSE 1))

Create(k) == Absent \in Seen(k) /\ Put("setnx", k, Absent, Written)

Swap(k) == \E old \in Seen(k) : Put("cas", k, old, Written)

Take(k) == \E old \in Seen(k) : old # Absent /\ Clear("cad", {k}, old)

Expire(k) ==
    /\ life[k] = "live"
    /\ life' = [life EXCEPT ![k] = "expired"]
    /\ UNCHANGED <<value, effect>>

ANext ==
    \/ \E k \in Keys : Overwrite(k) \/ Increment(k) \/ Create(k) \/ Swap(k) \/ Take(k) \/ Expire(k)
    \/ \E K \in SUBSET Keys : Remove(K)

ASpec == AInit /\ [][ANext]_avars
=============================================================================
