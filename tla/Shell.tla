--------------------------------- MODULE Shell ---------------------------------
(***************************************************************************)
(* The shell: kbdInterruptHandler of keyboard.c edits a line on the screen *)
(* and runs it, all inside the keyboard interrupt.                         *)
(*                                                                         *)
(* The end of interrupt is sent before the handler is called, and the      *)
(* handler's first spinlockUnlock turns interrupts on, so that the next    *)
(* key may interrupt it there: acts is the stack of handlers that are      *)
(* under way.  Between two points where interrupts are on a handler is one *)
(* step.  A word that is a command is one letter, and so are the constant  *)
(* parts of what is printed.  Keys that are released, and keys without a   *)
(* branch in the handler, change nothing.                                  *)
(***************************************************************************)
EXTENDS Console, SequencesExt

CONSTANTS
  LINE,      \* length of line[], cmd[] and arg[]; 50
  MaxLine,   \* what users type before Enter; line[] has no limit check
  MaxKeys,   \* bound on the number of keys
  NEST,      \* bound on the handlers under way
  Habits     \* what users do that the code does not provide for, see below

(***************************************************************************)
(* "fast":   the next key comes while a handler is under way;              *)
(* "erase":  backspace is pressed on an empty line;                        *)
(* "blanks": there is more than one blank between words, or one at the end *)
(*           of a line;                                                    *)
(* "bare":   cd and mkdir are typed without an argument.                   *)
(***************************************************************************)
ASSUME HabitsAssumption == Habits \subseteq {"fast", "erase", "blanks", "bare"}
\* With the prompt, a line that is not too long fits in a row.
ASSUME LineAssumption == /\ LINE \in Nat /\ MaxLine \in 1 .. LINE - 1 /\ MaxLine < CSL_WIDTH
                         /\ MaxKeys \in Nat /\ NEST \in Nat \ {0}

ls == "l"
cd == "c"
mkdir == "m"

NUL == "nul"

ASSUME LettersAssumption == {ls, cd, mkdir, "$", "!"} \subseteq Letters /\ NUL \notin Letters

Key == (Letters \ {"$", "!"}) \cup {Blank}

VARIABLES
  line,    \* line[], with what is left of earlier lines
  pos,     \* pos
  arg,     \* arg[], up to its terminator
  acts,    \* the handlers under way, the running one first
  typed,   \* what has been typed since the last Enter
  want,    \* the command last typed
  ran,     \* the command last run
  keys     \* number of keys pressed

buffers == <<line, pos, arg>>
shellvars == <<screen, buffers, acts, typed, want, ran, keys>>

NoCommand == [cmd |-> << >>, arg |-> << >>]

prompt == <<NewLine, "$">>

\* kernelMain has printed the first prompt.
ShellInit ==
  /\ screen = printf(cslInit, <<"$">>)
  /\ line = [i \in 1 .. LINE |-> NUL] /\ pos = 0 /\ arg = << >>
  /\ acts = << >> /\ typed = << >> /\ want = NoCommand /\ ran = NoCommand /\ keys = 0

------------------------------------------------------------------------------
(***************************************************************************)
(* parseCmd reads line until the first NUL behind the blanks and NULs it   *)
(* starts with.  Every blank starts the argument anew, and the character   *)
(* behind a blank is copied unseen, a NUL too.                             *)
(***************************************************************************)
ParseChar(s, c) ==
  CASE s.at = "end" \/ (s.at = "lead" /\ c \in {Blank, NUL}) -> s
    [] s.at = "word" /\ c = NUL -> [s EXCEPT !.at = "end"]
    [] s.at = "word" /\ c = Blank ->
         [cmd |-> IF s.inArg THEN s.cmd ELSE s.word, inArg |-> TRUE, word |-> << >>, at |-> "copy"]
    [] OTHER -> [s EXCEPT !.word = Append(@, c), !.at = "word"]

\* What it has made of the first n characters of l.
Parsed(l) ==
  LET s[n \in 0 .. LINE] ==
        IF n = 0 THEN [cmd |-> << >>, inArg |-> FALSE, word |-> << >>, at |-> "lead"]
                 ELSE ParseChar(s[n - 1], l[n])
  IN  s

\* A string up to its terminator.
String(s) == IF NUL \in ToSet(s) THEN SubSeq(s, 1, SelectInSeq(s, LAMBDA c : c = NUL) - 1) ELSE s

parseCmd(l) ==
  LET s == Parsed(l)[LINE]
  IN  [cmd |-> IF s.inArg THEN s.cmd ELSE s.word,
       arg |-> IF s.inArg THEN String(s.word) ELSE arg]

\* Only cd and mkdir look at the argument.
Effective(c) == [c EXCEPT !.arg = IF c.cmd \in {<<cd>>, <<mkdir>>} THEN @ ELSE << >>]

(***************************************************************************)
(* What a command prints, ls as one print.  The directory is the root,     *)
(* whose type is never set, so cd fails; mkdir prints nothing, and does    *)
(* not turn interrupts on.                                                 *)
(***************************************************************************)
Output(c) == CASE c.cmd = <<ls>> -> <<NewLine>>
               [] c.cmd = <<cd>> -> <<"!">> \o c.arg \o <<NewLine>>
               [] c.cmd = <<mkdir>> -> << >>
               [] OTHER -> <<NewLine>> \o c.cmd \o <<"!">>

------------------------------------------------------------------------------
(* What has been typed *)

\* Its words: where each begins and ends.
Words(s) == {w \in (DOMAIN s) \X (DOMAIN s) :
               /\ w[1] <= w[2] /\ \A i \in w[1] .. w[2] : s[i] # Blank
               /\ w[1] = 1 \/ s[w[1] - 1] = Blank
               /\ w[2] = Len(s) \/ s[w[2] + 1] = Blank}

First(W) == CHOOSE w \in W : \A v \in W : w[1] <= v[1]
Text(s, w) == SubSeq(s, w[1], w[2])

\* The command a user has typed, blanks apart.
Meant(s) ==
  LET W == Words(s) IN
  Effective([cmd |-> IF W = {} THEN << >> ELSE Text(s, First(W)),
             arg |-> IF Cardinality(W) = 2 THEN Text(s, First(W \ {First(W)})) ELSE << >>])

\* Only words are typed, after any blanks, with one blank between any two of them.
Tidy(s) == /\ s[Len(s)] # Blank
           /\ \A i \in 2 .. Len(s) :
                s[i] = Blank /\ s[i - 1] = Blank => \A j \in 1 .. i : s[j] = Blank

\* Users press Enter on lines the parser provides for.
Provided(s) ==
  LET W == Words(s) IN
  /\ "blanks" \notin Habits /\ s # << >> => Tidy(s)
  /\ "bare" \notin Habits /\ Cardinality(W) \notin {0, 2} => Text(s, First(W)) \notin {<<cd>>, <<mkdir>>}

------------------------------------------------------------------------------
(* The keyboard interrupt *)

\* It is taken when interrupts are on.
Interrupt == /\ keys < MaxKeys /\ keys' = keys + 1
             /\ acts = << >> \/ ("fast" \in Habits /\ Len(acts) < NEST)

PressLetter ==
  /\ Interrupt /\ pos < MaxLine
  /\ \E k \in Key : /\ screen' = putc(screen, k)
                    /\ line' = [line EXCEPT ![pos + 1] = k]
                    /\ typed' = Append(typed, k)
  /\ pos' = pos + 1
  /\ UNCHANGED <<arg, acts, want, ran>>

\* Up to the end of getPos.
PressBackspace ==
  /\ Interrupt
  /\ pos > 0 \/ "erase" \in Habits
  /\ acts' = <<[at |-> "setPos", row |-> screen.row, col |-> screen.col]>> \o acts
  /\ typed' = IF typed = << >> THEN typed ELSE Front(typed)
  /\ UNCHANGED <<screen, buffers, want, ran>>

\* Mutant of Terminated: the line is not.
TerminatedNot == line

Terminated == [line EXCEPT ![pos + 1] = NUL]

\* The prompt at the end of the handler.
PressEnterOnEmpty ==
  /\ Interrupt /\ pos = 0 /\ Provided(typed)
  /\ typed' = << >>
  /\ screen' = printf(screen, prompt)
  /\ UNCHANGED <<buffers, acts, want, ran>>

\* A command that prints something turns interrupts on.
PressEnter ==
  /\ Interrupt /\ pos > 0 /\ Provided(typed)
  /\ LET c == parseCmd(Terminated) IN
       /\ line' = Terminated /\ arg' = c.arg
       /\ ran' = Effective(c)
       /\ \/ /\ Output(c) # << >>
             /\ screen' = printf(screen, Output(c))
             /\ acts' = <<[at |-> "reset"]>> \o acts /\ UNCHANGED pos
          \/ /\ Output(c) = << >>
             /\ pos' = 0 /\ screen' = printf(screen, prompt) /\ UNCHANGED acts
  /\ want' = Meant(typed) /\ typed' = << >>

\* The running handler goes on, and returns when there is nothing left to do.
Step(at, then) == /\ acts # << >> /\ Head(acts).at = at
                  /\ acts' = then \o Tail(acts)
                  /\ UNCHANGED <<line, arg, typed, want, ran, keys>>

\* Mutant of SetPos: the cursor does not move.
SetPosStays == /\ Step("setPos", <<[at |-> "load"]>>)
               /\ screen' = setPos(screen, Head(acts).row, Head(acts).col, Blank)
               /\ UNCHANGED pos

\* The position is the one getPos has returned.
SetPos == /\ Step("setPos", <<[at |-> "load"]>>)
          /\ screen' = setPos(screen, Head(acts).row, Head(acts).col - 1, Blank)
          /\ UNCHANGED pos

\* pos-- is a load and a store.
LoadPos == Step("load", <<[at |-> "store", pos |-> pos]>>) /\ UNCHANGED <<screen, pos>>
StorePos == Step("store", << >>) /\ pos' = Head(acts).pos - 1 /\ UNCHANGED screen

ResetPos == Step("reset", <<[at |-> "prompt"]>>) /\ pos' = 0 /\ UNCHANGED screen
PrintPrompt == Step("prompt", << >>) /\ screen' = printf(screen, prompt) /\ UNCHANGED pos

ShellNext == \/ PressLetter \/ PressBackspace \/ PressEnterOnEmpty \/ PressEnter
             \/ SetPos \/ LoadPos \/ StorePos \/ ResetPos \/ PrintPrompt

ShellSpec == ShellInit /\ [][ShellNext]_shellvars

------------------------------------------------------------------------------
(* Properties *)

Activation == [at : {"load", "reset", "prompt"}]
              \cup [at : {"setPos"}, row : 0 .. CSL_HEIGHT, col : 0 .. CSL_WIDTH]
              \cup [at : {"store"}, pos : 0 .. MaxLine]

ShellTypeOK ==
  /\ ScreenTypeOK
  /\ line \in [1 .. LINE -> Key \cup {NUL}] /\ pos \in 0 .. MaxLine
  /\ arg \in Seq(Key)
  /\ acts \in Seq(Activation) /\ Len(acts) <= NEST
  /\ typed \in Seq(Key) /\ Len(typed) <= MaxLine
  /\ keys \in 0 .. MaxKeys

(***************************************************************************)
(* The user sees the line that will be run: when no handler is under way,  *)
(* the prompt is followed by the pos characters of line[], which are those *)
(* that were typed, and then by the cursor (putc, setPos, and the stores   *)
(* to line and pos of kbdInterruptHandler).                                *)
(***************************************************************************)
Shown == [i \in 1 .. pos |-> screen.video[At(screen.row, screen.col - pos + i - 1)]]

EchoesTheLine ==
  acts = << >> =>
    /\ screen.col > pos /\ screen.video[At(screen.row, screen.col - pos - 1)] = "$"
    /\ Shown = SubSeq(line, 1, pos) /\ typed = SubSeq(line, 1, pos)

(***************************************************************************)
(* The rest of a displayed row is blank: nothing that was erased, or       *)
(* printed before, is left behind the cursor (setPos, clear).              *)
(***************************************************************************)
NothingBehindCursor ==
  acts = << >> /\ screen.row < CSL_HEIGHT =>
    \A c \in screen.col .. CSL_WIDTH - 1 : screen.video[At(screen.row, c)] = Blank

(***************************************************************************)
(* keyboard.h:57, "parse command line": what Enter runs is the command and *)
(* the argument that were typed, whatever earlier lines have left in the   *)
(* buffers (parseCmd, kbdInterruptHandler).                                *)
(***************************************************************************)
RunsWhatWasTyped == ran = want
==============================================================================
