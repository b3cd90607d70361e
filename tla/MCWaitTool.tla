----------------------------- MODULE MCWaitTool -----------------------------
(***************************************************************************)
(* Command lines and events for checking WaitTool.                         *)
(***************************************************************************)
EXTENDS WaitTool

Opt(letter) == [opt |-> letter]
EventOpt(names) == [opt |-> "e", names |-> names]
FormatOpt(empty, time) == [opt |-> "n", empty |-> empty, time |-> time]
RegexOpt(letter, names) ==
  [opt |-> letter, regex |-> [given |-> TRUE, valid |-> TRUE, names |-> names]]
BadRegexOpt == [opt |-> "j", regex |-> [given |-> TRUE, valid |-> FALSE, names |-> {}]]
TimeoutOpt(n) == [opt |-> "t", len |-> 1, consumed |-> 1, range |-> FALSE, value |-> n]

Word(name) == [at |-> FALSE, name |-> name]
AtWord(name) == [at |-> TRUE, name |-> name]

\* A command line for one file given by a relative path
Line(argv) ==
  [argv |-> argv, lines |-> << >>, args |-> <<Word("rel")>>, fsnotify |-> FALSE,
   fromfile_opens |-> TRUE, outfile_exists |-> TRUE, tty |-> FALSE, killed |-> FALSE]

m == Opt("m")
q == Opt("q")
r == Opt("r")
S == Opt("S")
F == Opt("F")
out_d == <<Opt("d"), Opt("o")>>
MoveEvents == EventOpt(<<"create", "move">>)

\* What is reported, and when it ends the tool
ReportingLines ==
  { Line(<< >>),
    Line(<<TimeoutOpt(1), EventOpt(<<"modify">>)>>),
    Line(<<TimeoutOpt(0), EventOpt(<<"modify", "">>)>>),
    Line(<<m, r, EventOpt(<<"modify">>)>>),
    Line(<<m, TimeoutOpt(1), q, RegexOpt("j", {"f"}), r>>),
    Line(<<m, RegexOpt("a", {"f", "d"}), r>>),
    Line(<<m, RegexOpt("a", {"d"}), RegexOpt("a", {"f"})>>),
    Line(<<RegexOpt("b", {"f"}), TimeoutOpt(1)>>),
    Line(<<m, q, q, TimeoutOpt(1)>>),
    [Line(<<m, FormatOpt(FALSE, FALSE), Opt("0")>>) EXCEPT !.tty = TRUE, !.killed = TRUE],
    [Line(<<m, Opt("c")>>) EXCEPT !.killed = TRUE],
    [Line(<<m, FormatOpt(TRUE, FALSE)>>) EXCEPT !.tty = TRUE] }

\* fanotify, on a directory or on the whole filesystem
FanotifyLines ==
  { Line(<<F, TimeoutOpt(1)>>), Line(<<F, m, q>>), Line(<<S>>),
    Line(<<S, m, RegexOpt("k", {"f"}), TimeoutOpt(1)>>),
    Line(<<S, Opt("I"), m>>),
    [Line(<<m, TimeoutOpt(1), EventOpt(<<"open">>)>>) EXCEPT !.fsnotify = TRUE],
    [Line(out_d \o <<S, MoveEvents>>) EXCEPT !.args = <<Word("abs")>>] }

\* Daemon mode, redirection, the list of files
SetupLines ==
  { Line(out_d), Line(<<Opt("d")>>),
    [Line(out_d) EXCEPT !.args = <<Word("abs")>>, !.killed = TRUE],
    [Line(out_d) EXCEPT !.outfile_exists = FALSE],
    Line(<<Opt("o"), TimeoutOpt(1)>>), Line(<<Opt("o"), Opt("o")>>),
    [Line(<<Opt("z"), TimeoutOpt(1)>>) EXCEPT !.lines = <<AtWord("rel"), Word("abs")>>],
    [Line(<<Opt("z")>>) EXCEPT !.lines = <<Word("abs"), Word("")>>],
    [Line(<<Opt("z")>>) EXCEPT !.fromfile_opens = FALSE],
    [Line(<<m>>) EXCEPT !.args = <<Word(""), Word("abs"), Word("missing")>>],
    [Line(<<TimeoutOpt(1)>>) EXCEPT !.args = <<Word("abs"), Word(""), Word("rel")>>],
    [Line(<<m>>) EXCEPT !.args = <<AtWord("abs")>>] }

\* Refused, most before the library is set up
RefusedLines ==
  { Line(<<Opt("h")>>), Line(<<m, FormatOpt(FALSE, FALSE), Opt("c")>>),
    Line(<<FormatOpt(FALSE, TRUE)>>), Line(<<FormatOpt(TRUE, FALSE), Opt("0")>>),
    Line(<<Opt("i")>>), Line(<<Opt("0")>>), Line(<<BadRegexOpt>>),
    Line(<<RegexOpt("a", {"f"}), RegexOpt("k", {"f"})>>),
    Line(<<RegexOpt("a", {"f"}), RegexOpt("b", {"f"})>>),
    Line(<<EventOpt(<<"modify", "nonsense", "">>)>>),
    Line(<<[TimeoutOpt(1) EXCEPT !.len = 2]>>), Line(<<TimeoutOpt(-1)>>) }

MCCommands == ReportingLines \cup FanotifyLines \cup SetupLines \cup RefusedLines

MCUserEvents ==
  { [kind |-> k, name |-> n, isdir |-> n # "f", who |-> User] :
      k \in {"create", "moved_from"}, n \in {"f", "d"} }
    \cup { [kind |-> "modify", name |-> "f", isdir |-> FALSE, who |-> User],
           [kind |-> "open", name |-> Here, isdir |-> TRUE, who |-> User],
           [kind |-> "overflow", name |-> Here, isdir |-> FALSE, who |-> User] }
=============================================================================
