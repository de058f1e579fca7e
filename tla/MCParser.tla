------------------------------ MODULE MCParser ------------------------------
(* TLC instances of Parser: the words of the text are the keys of the manual *)
(* and one that is none.                                                     *)
EXTENDS Parser

AllWords == UNION {DOMAIN LoggerKeys, DOMAIN FilterKeys, DOMAIN DeviceKeys, DOMAIN HeaderKeys}
            \cup {"name"}

\* The tests of ParseReserve, in their order, tell all keys of the manual apart.
ASSUME AllKeysTold == KeysTold
=============================================================================
