------------------------------ MODULE Keyspace ------------------------------
(***************************************************************************)
(* What a store promises its clients: a keyspace in which a key is gone    *)
(* the moment its deadline passes, sorted sets have an order but no index, *)
(* a command acts at once and as a whole, and only a store with limits     *)
(* loses a key or refuses a command.  Store implements it.                 *)
(***************************************************************************)
EXTENDS Propagation

VARIABLES
    clock,     \* milliseconds
    db,        \* key -> entry; every entry is live
    limited,   \* the store has a limit on keys or memory
    cmd,       \* the last command; its op is "none" before the first
    reply      \* and what was answered

vars == <<clock, db, limited, cmd, reply>>

Init == \A k \in DOMAIN db : Live(db, k, clock)

\* Keys a store may lose on the way.
Losses(d) == IF limited THEN SUBSET DOMAIN d ELSE {{}}

Do ==
    /\ UNCHANGED <<clock, limited>>
    /\ cmd'.op # "none"
    /\ \E before \in Losses(db) : \E r \in Exec(Without(db, before), clock, cmd') :
         \E after \in Losses(r.db) :
           /\ db' = Visible(Without(r.db, after), clock)
           /\ reply' = r.reply

\* A store at its limit answers with an error and leaves what it has not lost as it was.
Refuse ==
    /\ limited
    /\ reply' \in {Error("max keys"), Error("OOM")}
    /\ \E gone \in Losses(db) : db' = Without(db, gone)
    /\ UNCHANGED <<clock, limited>>

Pass ==
    /\ clock' > clock
    /\ db' = Visible(db, clock')
    /\ UNCHANGED <<limited, cmd, reply>>

Lose ==
    /\ \E gone \in Losses(db) : db' = Without(db, gone)
    /\ UNCHANGED <<clock, limited, cmd, reply>>

\* A restart from a snapshot forgets the attempts a limiter has counted, and nothing else.
Reboot ==
    /\ db' = [k \in DOMAIN db |->
                IF db[k].val[1] = "rate" THEN [db[k] EXCEPT !.val[2].buckets = <<>>] ELSE db[k]]
    /\ UNCHANGED <<clock, limited, cmd, reply>>

Next == Do \/ Refuse \/ Pass \/ Lose \/ Reboot
Spec == Init /\ [][Next]_vars
=============================================================================
