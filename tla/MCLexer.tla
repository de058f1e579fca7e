------------------------------ MODULE MCLexer -------------------------------
(* TLC instances of Lexer: one character of each kind Lex and ParseBitArray *)
(* tell apart; braces are treated as brackets are.                          *)
EXTENDS Lexer

AllChars == {"key", "list", "x", "-", " ", ":", "#", "quote", "[", "]", "CR", "LF"}
=============================================================================
