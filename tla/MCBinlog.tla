------------------------------ MODULE MCBinlog ------------------------------
(* The clients of a Binlog for model checking. *)
EXTENDS Binlog

CONSTANTS k1, k2

MCKeys == {k1, k2}
MCKeySymmetry == Permutations(MCKeys)

(* A client that never uses a key, one that cannot always regenerate, and   *)
(* one that always uses a key.  With a key event in the file a rate of 1    *)
(* would regenerate it all the time.  The disk of the last leaves no '\0'   *)
(* bytes whose decrypted length is not a multiple of 4: that is ZeroTail.   *)
Client(keys, rate, open_fails, tails, max, failures) ==
  [keys |-> keys, rules |-> {<<2, rate>>}, open_fails |-> open_fails, tails |-> tails,
   operations |-> max, crashes |-> failures]

MCClients == {Client({NoKey}, 1, FALSE, {"short", "bad", "zero"}, 4, 2),
              Client({NoKey}, 1, TRUE, {"short", "bad", "zero"}, 3, 2),
              Client(MCKeys, 2, FALSE, {"short", "bad"}, 3, 1),
              Client(MCKeys, 2, FALSE, {"short", "bad"}, 2, 2)}

(* A client that gives its database a key later. *)
FirstKeyClient == {Client({NoKey, k1}, 1, FALSE, {"short", "bad"}, 2, 1)}

(* A client with a key from the start, on whose disk '\0' bytes are left.   *)
ZeroTailClient == {Client({k1}, 2, FALSE, {"zero"}, 2, 1)}
=============================================================================
