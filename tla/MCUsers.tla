------------------------------- MODULE MCUsers -------------------------------
(* Instance of Users: a kakao and an apple identity with one email, two       *)
(* logins that meet a provider with two keys, and two spots with a page for   *)
(* one of them.                                                               *)
EXTENDS Users
CONSTANTS d1, d2, kakao, apple, s1, mail

MCDevice   == {d1, d2}
MCCall     == {<<d1, 1>>, <<d1, 2>>, <<d2, 1>>}
MCIdentity == {kakao, apple}
MCEmailOf  == [i \in {kakao, apple} |-> mail]
=============================================================================
