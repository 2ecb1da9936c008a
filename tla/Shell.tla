-------------------------------- MODULE Shell --------------------------------
(***************************************************************************)
(* The command shell of Chapter_07_Threads/05_Messages/programs/shell      *)
(* (shell.c) printing through the VGA text console (VgaText).  One step is *)
(* one pass of the shell's loops: a key read by get_char with everything   *)
(* the shell prints for it, or a whole command line parsed and run, with   *)
(* the next prompt.  print and its formats (lib/print.c) are the string    *)
(* they produce, printed character by character with print_char.          *)
(*                                                                         *)
(* Text the shell prints and no property is about (banner, help, messages) *)
(* is the glyph Txt for each phrase, keeping its spaces and line ends.     *)
(* Command names are short glyph sequences; what matters of them is which *)
(* is a prefix of which.  A program from PROGRAMS_FOR_SHELL prints one of  *)
(* ProgOutputs and returns 0 or not.  get_char returning 0 (no key, delay) *)
(* changes nothing and is left out.                                        *)
(***************************************************************************)
EXTENDS VgaText, SequencesExt, FiniteSets

CONSTANTS
    MAXCMDLEN,    \* command buffer length (72)
    MAXARGS,      \* arguments the parser splits off (10)
    ShCmds,       \* the names of sh_cmd, in its order: help, clear, sysinfo, exit, quit
    Progs,        \* the names of prog[] (PROGRAMS_FOR_SHELL), in its order
    Keys,         \* glyphs the user types
    Txt,          \* the glyph that stands for a fixed phrase
    ProgOutputs   \* what a program may print

ASSUME /\ Len(ShCmds) = 5
       /\ \A n \in ToSet(ShCmds) \cup ToSet(Progs) : n # <<>> /\ Len(n) <= MAXCMDLEN
       /\ Keys \subseteq Glyphs /\ Txt \in Glyphs /\ ">" \in Glyphs
       /\ 2 + MAXCMDLEN < COLS    \* the prompt and a full line fit a row (2 + 72 < 80)

HELP == ShCmds[1]
CLEAR == ShCmds[2]
SYSINFO == ShCmds[3]
EXIT == ShCmds[4]
QUIT == ShCmds[5]

NoKey == "none"

VARIABLES
    con,     \* the console: cursor and text page
    cmd,     \* cmd[0 .. i-1]: the line typed so far (i = Len(cmd))
    phase,   \* "start", "read" (in the get-command loop) or "done" (returned)
    key      \* the key of the last step (NoKey for other steps)

vars == <<con, cmd, phase, key>>

(* text of the shell's fixed prints *)
Banner == <<LF, Txt, LF, LF>>                 \* "\n*** Simple shell interpreter ***\n\n"
Prompt == <<LF, ">", SPACE>>                  \* "\n> "
Each(names, sep) == FlattenSeq([k \in 1 .. Len(names) |-> names[k] \o sep])

(* help (): "Shell commands: " each name and a space, "\n", "Programs: " likewise, "\n" *)
HelpText == <<Txt, SPACE>> \o Each(ShCmds, <<SPACE>>) \o <<LF, Txt, SPACE>> \o Each(Progs, <<SPACE>>) \o <<LF>>

(* <tab> on an empty line: both tables, one name a line, the last program without "\n" *)
AllCommandsText ==
    <<Txt, LF, Txt, LF>> \o Each(ShCmds, <<LF>>) \o <<Txt, LF>>
        \o (IF Progs = <<>> THEN <<>> ELSE Each(Front(Progs), <<LF>>) \o Last(Progs))

(* new_cmd: print the prompt, i = 0, memset of cmd *)
NewCmd(c) == /\ con' = PrintStr(c, Prompt)
             /\ cmd' = <<>>
             /\ phase' = "read"

(* strncmp ( cmd, name, i ) == 0 for the i typed characters, and the matches in a table *)
Matches(names) == SelectSeq(names, LAMBDA n : IsPrefix(cmd, n))

(***************************************************************************)
(* The parse loop: skip blanks, take a word up to the next blank, end it *)
(* with 0 and step over that; at most MAXARGS words.                     *)
(***************************************************************************)
RECURSIVE Parse(_, _)
Parse(rest, args) ==
    IF rest = <<>> \/ Len(args) >= MAXARGS THEN args
    ELSE IF Head(rest) = SPACE THEN Parse(Tail(rest), args)
    ELSE LET j == SelectInSeq(rest, LAMBDA ch : ch = SPACE)
         IN  IF j = 0 THEN Append(args, rest)
             ELSE Parse(SubSeq(rest, j + 1, Len(rest)), Append(args, SubSeq(rest, 1, j - 1)))

(* clear (): clear_screen (), the console's clear; sysinfo (): print the info text and "\n" *)
clear_cmd(c) == vga_text_clear(c)
sysinfo_cmd(c) == PrintStr(c, <<Txt, LF>>)

(***************************************************************************)
(* After the get-command loop: print "\n", parse, leave on quit or exit,  *)
(* else run the first sh_cmd, then the first program, of that name, or    *)
(* print "Invalid command!"; then new_cmd.  A line of blanks leaves       *)
(* argval[0] NULL, which compares unequal to every name.                  *)
(***************************************************************************)
Execute(c) ==
    LET c1 == vga_text_print_char(c, LF)
        argv == Parse(cmd, <<>>)
        name == IF argv = <<>> THEN <<>> ELSE argv[1]
    IN  IF name # <<>> /\ name \in {QUIT, EXIT}
        THEN /\ con' = PrintStr(c1, <<Txt, LF>>)       \* "Exiting from shell\n"
             /\ phase' = "done"
             /\ UNCHANGED cmd
        ELSE IF name # <<>> /\ name \in ToSet(ShCmds)
        THEN NewCmd(CASE name = HELP  -> PrintStr(c1, HelpText)
                      [] name = CLEAR -> clear_cmd(c1)
                      [] OTHER        -> sysinfo_cmd(c1))
        ELSE IF name # <<>> /\ name \in ToSet(Progs)
        THEN \E out \in ProgOutputs, failed \in BOOLEAN :
                NewCmd(PrintStr(PrintStr(c1, out), IF failed THEN <<LF, Txt, LF>> ELSE <<>>))
        ELSE NewCmd(PrintStr(c1, <<Txt>>))                     \* "Invalid command!"

Init ==
    /\ con = vga_text_init
    /\ cmd = <<>>
    /\ phase = "start"
    /\ key = NoKey

(* shell (): banner, help (), and the first prompt *)
Start ==
    /\ phase = "start"
    /\ NewCmd(PrintStr(PrintStr(con, Banner), HelpText))
    /\ key' = NoKey

(* '\n': run a non-empty line, or a fresh prompt for an empty one *)
Enter ==
    /\ phase = "read" /\ Len(cmd) < MAXCMDLEN
    /\ key' = LF
    /\ IF cmd # <<>> THEN Execute(con) ELSE NewCmd(con)

(* '\b': drop the last character and echo the backspace *)
Backspace ==
    /\ phase = "read" /\ Len(cmd) < MAXCMDLEN
    /\ key' = BS
    /\ IF cmd # <<>>
       THEN /\ cmd' = Front(cmd)
            /\ con' = vga_text_print_char(con, BS)
       ELSE UNCHANGED <<cmd, con>>
    /\ UNCHANGED phase

(***************************************************************************)
(* '\t': on an empty line list every command and start over.  Otherwise  *)
(* count the names of both tables the typed text is a prefix of: none,   *)
(* wait for the next key; one, print and copy the rest of that name;     *)
(* more, print "\n" and each matching name on a line, then new_cmd.      *)
(***************************************************************************)
Tab ==
    /\ phase = "read" /\ Len(cmd) < MAXCMDLEN
    /\ key' = TAB
    /\ LET found == Matches(ShCmds) \o Matches(Progs)
       IN  CASE cmd = <<>>     -> NewCmd(PrintStr(con, AllCommandsText))
             [] Len(found) = 0 -> UNCHANGED <<con, cmd, phase>>
             [] Len(found) = 1 -> /\ con' = PrintStr(con, SubSeq(found[1], Len(cmd) + 1, Len(found[1])))
                                  /\ cmd' = found[1]
                                  /\ UNCHANGED phase
             [] OTHER          -> NewCmd(PrintStr(con, <<LF>> \o Each(found, <<LF>>)))

(* any other key: echo it and append it to the line *)
Type(k) ==
    /\ phase = "read" /\ Len(cmd) < MAXCMDLEN
    /\ key' = k
    /\ con' = vga_text_print_char(con, k)
    /\ cmd' = Append(cmd, k)
    /\ UNCHANGED phase

(* the loop ends without '\n' once MAXCMDLEN characters are in the line *)
LineFull ==
    /\ phase = "read" /\ Len(cmd) = MAXCMDLEN
    /\ key' = NoKey
    /\ Execute(con)

Next ==
    \/ Start
    \/ Enter
    \/ Backspace
    \/ Tab
    \/ \E k \in Keys : Type(k)
    \/ LineFull

Spec == Init /\ [][Next]_vars
-----------------------------------------------------------------------------
TypeOK ==
    /\ ConsoleType(con)
    /\ cmd \in Seq(Glyphs) /\ Len(cmd) <= MAXCMDLEN
    /\ phase \in {"start", "read", "done"}
    /\ key \in Keys \cup {LF, BS, TAB, NoKey}

(***************************************************************************)
(* What the user sees is what the shell will run: whenever the shell waits *)
(* for a key, the cursor's row starts with the prompt "> ", the typed      *)
(* line follows it and the cursor sits right after the line.  Echoes of   *)
(* keys, backspaces, completions, scrolling on the last row and the clear *)
(* command all have to keep the screen and cmd in step.                   *)
(***************************************************************************)
EchoShowsCommand ==
    phase = "read" =>
        /\ con.x = 2 + Len(cmd)
        /\ Row(con, con.y)[0] = ">" /\ Row(con, con.y)[1] = SPACE
        /\ \A j \in 1 .. Len(cmd) : Row(con, con.y)[1 + j] = cmd[j]

(***************************************************************************)
(* The comment on the <tab> branch: when several names match, "leave the  *)
(* typed characters" and list the matches on a new line.  So a <tab>     *)
(* never loses what was typed: after it the line still starts with it.   *)
(***************************************************************************)
TabKeepsTypedText ==
    [][phase = "read" /\ key' = TAB => IsPrefix(cmd, cmd')]_vars

(***************************************************************************)
(* A prompt starts on a clean line: while the shell waits for a key, no   *)
(* old text is left right of the cursor on its row.  vga_text_clear and  *)
(* the scroll blank rows; the cursor also reaches row ROWS by ypos++.    *)
(***************************************************************************)
FreshLine ==
    phase = "read" => \A k \in con.x .. COLS - 1 : Row(con, con.y)[k] \in {NUL, SPACE}
=============================================================================
