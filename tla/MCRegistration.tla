--------------------------- MODULE MCRegistration ---------------------------
(* A small instance of Registration: three attempts to register one address *)
(* in two ways of writing it, with two passwords, and a login with each: one *)
(* of them with a longer password that begins in the same 72 bytes.          *)
EXTENDS Registration

MCNormal == [x \in Addresses |-> IF x = "Ann@shop" THEN "ann@shop" ELSE x]

MCAddress == [a \in Attempts |->
                IF a \in {"first", "login"} THEN "ann@shop" ELSE "Ann@shop"]

MCKind == [a \in Attempts |->
             IF a \in {"login", "other login"} THEN "login" ELSE "register"]

MCPassword == [a \in Attempts |->
                 CASE a = "first"       -> "p"
                   [] a = "other login" -> "p and more"
                   [] OTHER             -> "q"]

MCHead == [w \in {"p", "p and more", "q"} |-> IF w = "p and more" THEN "p" ELSE w]
=============================================================================
