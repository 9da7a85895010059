------------------------------ MODULE MCRuntime ------------------------------
(* A small instance of Runtime for TLC.                                    *)
EXTENDS Runtime

CONSTANTS c1, c2

MCAccount == {"Alice", "Bob"}
MCCoin    == {c1, c2}

Swapping  == [name |-> "create_proposal", duration |-> 2,
              action |-> [from |-> c1, to |-> c2, amount |-> 0]]
Pays(n, dest, amount) == [name |-> n, dest |-> dest, value |-> amount]
Stakes(n)             == [name |-> n, amount |-> 1]
Roots(c)              == [name |-> "sudo", call |-> c]
Released  == [name |-> "force_unreserve", who |-> "Bob", amount |-> 1]
SetTo(n)  == [name |-> "force_set_balance", who |-> "Bob", amount |-> n]
Moved     == [name |-> "force_transfer", source |-> "Bob", dest |-> "Alice", value |-> 3]
AsBob     == [name |-> "sudo_as", who |-> "Bob", call |-> Stakes("deposit")]
Seeding   == [name |-> "seed_vault", coin |-> c1, amount |-> 1]

MCWanted ==
    [signer : {"Bob"},
     call   : {Swapping, Stakes("deposit"), Stakes("withdraw"),
               [name |-> "vote_proposal", id |-> 0, vote |-> "For"],
               [name |-> "finalize_proposal", id |-> 0],
               Pays("transfer_allow_death", "Alice", 3),
               Pays("transfer_keep_alive", "Alice", 2),
               Roots(Released)}]
    \cup
    [signer : {"Alice"},
     call   : {Pays("transfer_allow_death", "Bob", 2), [name |-> "remark"],
               Seeding, [name |-> "set_key", new |-> "Bob"],
               Roots(Released), Roots(SetTo(0)), Roots(SetTo(2)),
               Roots(AsBob), Roots(Moved), Roots(Seeding)}]

=============================================================================
