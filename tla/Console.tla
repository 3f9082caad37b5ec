------------------------------ MODULE Console ------------------------------
(***************************************************************************)
(* The text console of src/x86/putc.c: the cursor and what putchar does to *)
(* it.  An interrupt handler may print while another call of putchar is    *)
(* half done, so the calls in progress form a stack, innermost last.  The  *)
(* kernel is compiled with -O0: a statement that updates the cursor loads  *)
(* it, once or twice and in either order, and stores it later, and an      *)
(* interrupt may come between any two of these.                            *)
(***************************************************************************)
EXTENDS Naturals, Sequences

CONSTANTS
  line_width, line_count, tab_width,
  Word                                \* 2^w, for the unsigned cursor

\* The code has 80, 25, 4 and 2^32.  An interrupted scroll may move the cursor
\* up by two lines, so a screen needs a third one.
ASSUME ConsoleAssumption ==
  /\ {line_width, line_count, tab_width, Word} \subseteq Nat \ {0}
  /\ line_count > 2 /\ tab_width <= line_width
  /\ Word > line_width * (line_count + 2)

VARIABLES
  cursor,
  calls     \* for each activation of kernel code, its call of putchar

console == <<cursor, calls>>

Limit == line_count * line_width

\* A call of putchar: the statements still to be executed, and the operands
\* that the first of them has loaded.
NotPrinting == [todo |-> <<>>, loaded |-> <<>>]

Call == calls[Len(calls)]
Proceed(call) == calls' = [calls EXCEPT ![Len(calls)] = call]

\* The messages of kernel_initialize have moved the cursor off the first line
\* before interrupts are enabled and processes can print.
ConsoleInit == cursor \in line_width .. Limit - 1

\* The statements that each character executes on the cursor.
Updates ==
  [printable |-> <<"next">>,
   newline   |-> <<"add_line", "trim_line">>,
   tab       |-> <<"add_tab", "trim_tab">>,
   return    |-> <<"back", "line_end">>]

\* Statements such as cursor -= cursor % line_width load the cursor twice.
Operands(update) ==
  IF update \in {"trim_line", "trim_tab", "line_end"} THEN {"left", "right"} ELSE {"left"}

Minus(a, b) == (a + Word - b) % Word

\* What a statement stores.
Stored(update, loaded) ==
  CASE update = "next"      -> (loaded.left + 1) % Word
    [] update = "add_line"  -> (loaded.left + line_width) % Word
    [] update = "trim_line" -> Minus(loaded.left, loaded.right % line_width)
    [] update = "add_tab"   -> (loaded.left + tab_width) % Word
    [] update = "trim_tab"  -> Minus(loaded.left, loaded.right % tab_width)
    [] update = "back"      -> Minus(loaded.left, line_width - 1)
    [] update = "line_end"  -> (Minus(loaded.left, loaded.right % line_width) + line_width) % Word
    [] update = "scroll"    -> Minus(loaded.left, line_width)

\* A printable character is written to screen[cursor] before the cursor moves.
PutBegin(c) ==
  /\ Call.todo = <<>>
  /\ Proceed([NotPrinting EXCEPT !.todo = Append(Updates[c], "check")])
  /\ UNCHANGED cursor

Pending == IF Call.todo \in {<<>>, <<"check">>} THEN {}
           ELSE Operands(Head(Call.todo)) \ DOMAIN Call.loaded

Load(operand) ==
  /\ operand \in Pending
  /\ Proceed([Call EXCEPT !.loaded =
       [o \in DOMAIN @ \cup {operand} |-> IF o = operand THEN cursor ELSE @[o]]])
  /\ UNCHANGED cursor

Store ==
  /\ Call.todo \notin {<<>>, <<"check">>} /\ Pending = {}
  /\ cursor' = Stored(Head(Call.todo), Call.loaded)
  /\ Proceed([NotPrinting EXCEPT !.todo = Tail(Call.todo)])

\* Mutant: only a cursor beyond the end counts.
PastEnd == cursor > Limit

AtEnd == cursor >= Limit

\* At the end of the screen all lines move up by one.
Check ==
  /\ Call.todo = <<"check">>
  /\ Proceed([NotPrinting EXCEPT !.todo = IF AtEnd THEN <<"scroll">> ELSE <<>>])
  /\ UNCHANGED cursor

\* One step of printing text made of the given characters.
putchar(characters) ==
  \/ \E c \in characters : PutBegin(c)
  \/ \E operand \in {"left", "right"} : Load(operand)
  \/ Store
  \/ Check
=============================================================================
