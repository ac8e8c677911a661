----------------------------- MODULE MCParsers ------------------------------
(***************************************************************************)
(* The parsers of client input for model checking.  They share nothing, so *)
(* a behaviour either types a text or writes a message.                    *)
(***************************************************************************)
EXTENDS MCInputs, MCFieldSections

writerVars == <<message, ends, lengths>>

ParserInit == Init /\ WriterInit

ParserNext ==
    \/ message = << >> /\ Next /\ UNCHANGED writerVars
    \/ text = << >> /\ WriterNext /\ UNCHANGED text

ParserSpec == ParserInit /\ [][ParserNext]_<<text, writerVars>>

=============================================================================
