------------------------------ MODULE MCMigration ------------------------------
(* Instances of Migration, and of the purge it runs beside, for TLC. *)
EXTENDS Migration

CONSTANTS as1

LastAddress == {{2}}

OneWorld(held, mirror, rank, unfit, c, w) ==
  [hosts |-> [ip \in Addr |-> IF ip \in held THEN as1 ELSE NoRecord],
   attempts |-> held, mirror |-> mirror, rank |-> rank, unfit |-> unfit,
   calls |-> c, writes |-> w]

(* The locale's order reversed: "2a::" comes before "2a0::". *)
Reversed == [a \in Addr |-> 3 - a]

(* The purge under any writes and no migration; three calls that may        *)
(* overlap, under a rule; fewer calls beside one or two other writes; KV     *)
(* keys in the two orders, and one that is no public address. *)
MCWorlds ==
  {OneWorld({}, {}, Lexical, {}, 0, Endless),
   OneWorld(Addr, {{2}}, Lexical, {}, 3, 0),
   OneWorld(Addr, {}, Lexical, {}, 2, 1),
   OneWorld({2}, {}, Lexical, {}, 1, 2),
   OneWorld(Addr, {}, Reversed, {}, 3, 0),
   OneWorld(Addr, {}, Lexical, {1}, 3, 0)}
=============================================================================
