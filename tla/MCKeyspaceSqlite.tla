--------------------------- MODULE MCKeyspaceSqlite ---------------------------
(* KeyspaceSqlite for TLC, over two kinds of behaviours: three requests    *)
(* with member lists of which one replaces the other, and three that find  *)
(* a keyspace created by request r0 with one member list, so that a put    *)
(* may write after two later versions are stored.                          *)
EXTENDS KeyspaceSqlite, TLC

CONSTANTS a, b, h0, r0

VARIABLE slow      \* the second kind

Body(m, s, f) == [members |-> m, signers |-> s, adder |-> f]

HandOver == {Body({a, b}, {a}, a), Body({b}, {b}, a)}
OneBody == {Body({a, b}, {a}, a)}

Within ==
    /\ \A h \in Hash : Written(h) =>
          docs[h].body \in IF slow THEN OneBody ELSE HandOver
    /\ IF slow
       THEN /\ \A r \in Requests : req[r].st \in {"check", "put"} => req[r].caller = a
            /\ \/ \A r \in Requests \ {r0} : req[r] = Idle /\ req[r0].st # "refused"
               \/ Created(r0)
            /\ req[r0] # Idle => req[r0].hash = h0
       ELSE req[r0] = Idle /\ ~Written(h0)

MCInit == Init /\ slow \in BOOLEAN

MCSpec == MCInit /\ [][Next /\ UNCHANGED slow /\ Within']_<<vars, slow>>

Symmetry == Permutations(Hash \ {h0}) \union Permutations(Requests \ {r0})
=============================================================================
