------------------------------ MODULE Address -------------------------------
(***************************************************************************)
(* The text of an entry of the combo box, name(address), and what the      *)
(* handlers make of it: the name is what comes before the last "(", the    *)
(* address what comes after it without the last character.  A text is a    *)
(* sequence of characters.                                                 *)
(*                                                                         *)
(* BugFirstOpen has one plausible mistake: a property must fail when it    *)
(* takes the place of the definition that follows it.                      *)
(***************************************************************************)
EXTENDS Naturals, Sequences

CONSTANTS
    Char,          \* the characters of a text
    Open, Closed   \* "(" and ")"

ASSUME CharAssumption == Open \in Char /\ Closed \in Char
ASSUME ParenthesisAssumption == Open # Closed

Item(name, ip) == name \o <<Open>> \o ip \o <<Closed>>

BugFirstOpen(t) ==
    CHOOSE i \in 0 .. Len(t) :
        IF i = 0 THEN \A j \in 1 .. Len(t) : t[j] # Open
        ELSE t[i] = Open /\ \A j \in 1 .. i - 1 : t[j] # Open

\* lastIndexOf("("), one-based: 0 when there is none.
LastOpen(t) ==
    CHOOSE i \in 0 .. Len(t) :
        /\ i = 0 \/ t[i] = Open
        /\ \A j \in i + 1 .. Len(t) : t[j] # Open

NameOf(t) == SubSeq(t, 1, LastOpen(t) - 1)

IpOf(t) == SubSeq(t, LastOpen(t) + 1, Len(t) - 1)
=============================================================================
