------------------------------ MODULE TextEdit ------------------------------
(***************************************************************************)
(* The code window of the editor: textedit.c and the events main.c feeds   *)
(* it.  te is struct TexEdit; rows and columns count from 0, as there.     *)
(* screen is what was last drawn in each row of the work area.             *)
(***************************************************************************)
EXTENDS SequencesExt, Integers

CONSTANTS
  Chars, Space,      (* printable characters, the space among them          *)
  LF, CR, NUL,       (* other characters of a file                          *)
  MaxLines, MaxLen,  (* TE_MAX_LINES, TE_MAX_LINE_LEN                       *)
  ShortMax,          (* the largest short                                   *)
  TabWidth,          (* TE_TAB_WIDTH                                        *)
  Rows, Cols,        (* cells of the window's work area                     *)
  InitialText, NewText,   (* initial_code_lines, new_code_lines             *)
  Files,             (* files there are to load, besides those saved        *)
  Stops,             (* slider positions, of 0 .. 1000                      *)
  MaxBatch           (* bound: keys drained at once                         *)

ToEnd == 32767       (* as a row: the last one there is                     *)

FileLimit == MaxLines * (MaxLen + 1)

ASSUME WindowAssumption ==
  /\ MaxLines \in 2 .. ToEnd /\ MaxLen \in Nat \ {0} /\ TabWidth \in Nat
  /\ Rows \in Nat \ {0} /\ Cols \in Nat \ {0}
  /\ ShortMax \in Nat /\ MaxLen <= ShortMax /\ FileLimit <= 2 * ShortMax + 1
  /\ Space \in Chars /\ {LF, CR, NUL} \cap Chars = {} /\ LF # CR /\ NUL \notin {LF, CR}

IsText(ls) ==
  /\ ls \in Seq(Seq(Chars)) /\ Len(ls) <= MaxLines
  /\ \A j \in DOMAIN ls : Len(ls[j]) <= MaxLen

ASSUME TextsAssumption ==
  /\ IsText(InitialText) /\ IsText(NewText) /\ InitialText # <<>> /\ NewText # <<>>
  /\ Files \subseteq Seq(Chars \cup {LF, CR, NUL})
  /\ Stops \subseteq 0 .. 1000

VARIABLES te, screen, batch,
  running            (* the program: memory it overran has ended it         *)

vars == <<te, screen, batch, running>>

NoBatch == [first |-> 1, last |-> 0, keys |-> 0]
AtLeast0(n) == IF n < 0 THEN 0 ELSE n
Slice(s, from, to) == SubSeq(s, from, Min({to, Len(s)}))

(***************************************************************************)
(* The buffer                                                              *)
(***************************************************************************)
(* The array keeps an empty line behind the text it was cleared of.        *)
Line(t, r) == IF r < Len(t.lines) THEN t.lines[r + 1] ELSE <<>>
Before(t)  == Slice(Line(t, t.row), 1, t.col)
After(t)   == SubSeq(Line(t, t.row), t.col + 1, Len(Line(t, t.row)))
At(t, r, c) == [t EXCEPT !.row = r, !.col = c]

(* te_insert_char, n times: as many as the line takes.                     *)
Room(t)     == AtLeast0(MaxLen - Len(Line(t, t.row)))

InsertChar(t, c, n) ==
  LET m == Min({n, Room(t)})
  IN IF t.row >= Len(t.lines) THEN t
     ELSE [t EXCEPT !.lines[t.row + 1] = Before(t) \o [j \in 1 .. m |-> c] \o After(t),
                    !.col = @ + m]

(* Line r + 1 joins line r, as far as it fits, and the rest move up.       *)
(* Mutant: the lines below stay.                                           *)
JoinStay(t, r) ==
  [t EXCEPT !.lines =
     [j \in 1 .. Len(t.lines) - 1 |->
        IF j = r + 1 THEN Slice(Line(t, r) \o Line(t, r + 1), 1, MaxLen)
        ELSE t.lines[j]]]
Join(t, r) ==
  [t EXCEPT !.lines =
     [j \in 1 .. Len(t.lines) - 1 |->
        IF j = r + 1 THEN Slice(Line(t, r) \o Line(t, r + 1), 1, MaxLen)
        ELSE t.lines[IF j <= r THEN j ELSE j + 1]]]

DeleteBefore(t) ==
  IF t.col > 0
  THEN [t EXCEPT !.lines[t.row + 1] = RemoveAt(@, t.col), !.col = @ - 1]
  ELSE IF t.row > 0
  THEN At(Join(t, t.row - 1), t.row - 1, Len(Line(t, t.row - 1)))
  ELSE t

DeleteAt(t) ==
  IF t.col < Len(Line(t, t.row))
  THEN [t EXCEPT !.lines[t.row + 1] = RemoveAt(@, t.col + 1)]
  ELSE IF t.row < Len(t.lines) - 1 THEN Join(t, t.row)
  ELSE t

InsertNewline(t) ==
  IF Len(t.lines) >= MaxLines THEN t
  ELSE [t EXCEPT
          !.lines = [j \in 1 .. Len(t.lines) + 1 |->
                       IF j <= t.row THEN t.lines[j]
                       ELSE IF j = t.row + 1 THEN Before(t)
                       ELSE IF j = t.row + 2 THEN After(t)
                       ELSE t.lines[j - 1]],
          !.row = @ + 1, !.col = 0]

(***************************************************************************)
(* Keys                                                                    *)
(***************************************************************************)
Moves   == {"up", "down", "left", "right", "home", "end"}
Named   == Moves \cup {"tab", "enter", "backspace", "delete", "unhandled"}
Keys    == Chars \cup Named

ASSUME KeysAssumption == Chars \cap Named = {}

(* te_clamp_cursor, after the row changed.                                 *)
ToRow(t, r)       == At(t, r, Min({t.col, Len(Line(t, r))}))

Move(t, k) ==
  CASE k = "up"    -> IF t.row > 0 THEN ToRow(t, Min({t.row, Len(t.lines)}) - 1) ELSE t
    [] k = "down"  -> IF t.row < Len(t.lines) - 1 THEN ToRow(t, t.row + 1) ELSE t
    [] k = "left"  -> IF t.col > 0 THEN At(t, t.row, t.col - 1)
                      ELSE IF t.row > 0 THEN At(t, t.row - 1, Len(Line(t, t.row - 1))) ELSE t
    [] k = "right" -> IF t.col < Len(Line(t, t.row)) THEN At(t, t.row, t.col + 1)
                      ELSE IF t.row < Len(t.lines) - 1 THEN At(t, t.row + 1, 0) ELSE t
    [] k = "home"  -> At(t, t.row, 0)
    [] k = "end"   -> At(t, t.row, Len(Line(t, t.row)))

(* textedit_apply_key: the edit, and the rows it made stale.               *)
Applied(t, k) ==
  CASE k \in Moves      -> Move(t, k)
    [] k = "delete"     -> DeleteAt(t)
    [] k = "backspace"  -> DeleteBefore(t)
    [] k = "enter"      -> InsertNewline(t)
    [] k = "tab"        -> InsertChar(t, Space, TabWidth)
    [] k \in Chars      -> InsertChar(t, k, 1)
    [] k = "unhandled"  -> t

Dirty(t, k) ==
  IF k = "unhandled" THEN NoBatch
  ELSE [first |-> Min({t.row, Applied(t, k).row}),
        last  |-> IF k \in {"delete", "backspace", "enter"} THEN ToEnd
                  ELSE Max({t.row, Applied(t, k).row}), keys |-> 0]

(* TE_DIRTY_UNION.                                                         *)
(* Mutant: the later range wins.                                           *)
LaterOf(a, b) == b
Union(a, b)   == [a EXCEPT !.first = Min({@, b.first}), !.last = Max({@, b.last})]

(***************************************************************************)
(* Scrolling and drawing                                                   *)
(***************************************************************************)
HMax(t) == AtLeast0(Max({0} \cup {Len(t.lines[j]) : j \in DOMAIN t.lines}) + 1 - Cols)
VMax(t) == AtLeast0(Len(t.lines) - Rows)

ClampScroll(t) ==
  [t EXCEPT !.hscroll = AtLeast0(Min({@, HMax(t)})), !.vscroll = AtLeast0(Min({@, VMax(t)}))]

(* The least scrolling that brings x, of a view of n from s on, into view. *)
Into(x, s, n)      == IF x < s THEN x ELSE IF x >= s + n THEN x - n + 1 ELSE s

EnsureCursorVisible(t) ==
  [t EXCEPT !.hscroll = Into(t.col, @, Cols), !.vscroll = Into(t.row, @, Rows)]

OnScreen(t) == t.col - t.hscroll \in 0 .. Cols - 1 /\ t.row - t.vscroll \in 0 .. Rows - 1
Bars(t, r) ==
  IF OnScreen(t) /\ r = t.row - t.vscroll THEN {t.col - t.hscroll} ELSE {}

Drawn(t, r) ==
  [text |-> Slice(Line(t, t.vscroll + r), t.hscroll + 1, t.hscroll + Cols),
   bars |-> IF t.shown THEN Bars(t, r) ELSE {}]

Redraw(t, first, last) ==
  screen' = [r \in 0 .. Rows - 1 |-> IF r \in first .. last THEN Drawn(t, r) ELSE screen[r]]
RedrawAll(t) == Redraw(t, 0, Rows - 1)

FinishEdit(t, d) ==
  LET u     == ClampScroll(EnsureCursorVisible(t))
      above == d.last = ToEnd \/ d.last < u.vscroll    (* drawn to the bottom *)
  IN /\ te' = u
     /\ IF u.hscroll # t.hscroll \/ u.vscroll # t.vscroll THEN RedrawAll(u)
        ELSE Redraw(u, d.first - u.vscroll, IF above THEN Rows - 1 ELSE d.last - u.vscroll)

Rescroll(t) == te' = ClampScroll(t) /\ RedrawAll(ClampScroll(t)) /\ UNCHANGED batch

(***************************************************************************)
(* Files and the upload                                                    *)
(***************************************************************************)
WithBreaks(ls, brk) ==
  FlattenSeq([j \in DOMAIN ls |-> IF j < Len(ls) THEN ls[j] \o brk ELSE ls[j]])

(* Mutant: a line without characters is not written.                       *)
SavedFilled(ls) == WithBreaks(SelectSeq(ls, LAMBDA l : l # <<>>), <<CR, LF>>)
SavedFile(ls) == WithBreaks(ls, <<CR, LF>>)
Flat(ls)      == WithBreaks(ls, <<LF>>)

(* do_load: a file is split at LF, CR and CR LF, up to its first NUL.      *)
UptoNul(f)    == SubSeq(f, 1, Min({Len(f) + 1} \cup {j \in DOMAIN f : f[j] = NUL}) - 1)
Eol(s, p)     == Min({Len(s) + 1} \cup {j \in p .. Len(s) : s[j] \in {LF, CR}})
Behind(s, e)  == IF e < Len(s) /\ s[e] = CR /\ s[e + 1] = LF THEN e + 2 ELSE e + 1

(* line_len is a short: that of a line longer than ShortMax is negative,   *)
(* passes for one that fits, and is a huge size to memcpy.                 *)
LineLen(n)  == IF n > ShortMax THEN n - 2 * (ShortMax + 1) ELSE n
Overruns(f) == LET s == UptoNul(f) IN \E p \in DOMAIN s : LineLen(Eol(s, p) - p) < 0

(* Of a file that does not overrun; a line that is too long is cut.        *)
LoadedLines(f) ==
  LET s == UptoNul(f)
      start[j \in 1 .. MaxLines] == IF j = 1 THEN 1 ELSE Behind(s, Eol(s, start[j - 1]))
      n == Max({0} \cup {j \in 1 .. MaxLines : start[j] <= Len(s)})
  IN [j \in 1 .. n |-> Slice(SubSeq(s, start[j], Eol(s, start[j]) - 1), 1, MaxLen)]

(* build_upload_buf: the lines that fit, with a line break after each but  *)
(* the last of the text.                                                   *)
(* Mutant: a line break after every line.                                  *)
Flushed(ls, lim) == Flat(ls) \o <<LF>>
Flattened(ls, lim) ==
  LET n == Max({0} \cup {j \in DOMAIN ls : Len(Flat(SubSeq(ls, 1, j))) + 1 < lim})
  IN Flat(SubSeq(ls, 1, n)) \o IF n \in 1 .. Len(ls) - 1 THEN <<LF>> ELSE <<>>

UploadBuf(ls) == Flattened(ls, FileLimit)

(***************************************************************************)
(* Events                                                                  *)
(***************************************************************************)
(* textedit_clear and what fills the buffer after it.                      *)
Fresh(ls) == [lines |-> ls, row |-> 0, col |-> 0, shown |-> TRUE, hscroll |-> 0, vscroll |-> 0]

(* open_windows, and the first drawing of event_loop.                      *)
Init ==
  /\ te = ClampScroll(Fresh(InitialText))
  /\ screen = [r \in 0 .. Rows - 1 |-> Drawn(te, r)]
  /\ batch = NoBatch
  /\ running = TRUE

Idle == batch.keys = 0

(* A key, the keys that are waiting behind it, and one redraw for all.     *)
Key(k) ==
  /\ batch.keys < MaxBatch
  /\ LET t == [te EXCEPT !.shown = TRUE] IN
     /\ te' = Applied(t, k)
     /\ batch' = [IF Idle THEN Dirty(t, k) ELSE Union(batch, Dirty(t, k))
                    EXCEPT !.keys = batch.keys + 1]
  /\ UNCHANGED screen

Drained == ~Idle /\ FinishEdit(te, batch) /\ batch' = NoBatch

Click(sr, sc) ==
  /\ Idle
  /\ LET r == AtLeast0(Min({te.vscroll + sr, Len(te.lines) - 1}))
         c == Min({te.hscroll + sc, Len(Line(te, r))})
     IN FinishEdit([At(te, r, c) EXCEPT !.shown = TRUE],
                   [first |-> Min({te.row, r}), last |-> Max({te.row, r}), keys |-> 0])
  /\ UNCHANGED batch

Blink ==
  /\ Idle /\ te' = [te EXCEPT !.shown = ~@]
  /\ screen' = [r \in DOMAIN screen |->
       [screen[r] EXCEPT !.bars = IF te'.shown THEN @ \cup Bars(te, r) ELSE @ \ Bars(te, r)]]
  /\ UNCHANGED batch

(* handle_code_arrowed: a line, a column or a page.                        *)
Arrowed ==
  /\ Idle
  /\ \/ \E d \in {-Rows, -1, 1, Rows} : Rescroll([te EXCEPT !.vscroll = @ + d])
     \/ \E d \in {-Cols, -1, 1, Cols} : Rescroll([te EXCEPT !.hscroll = @ + d])

Slid(pos) ==
  /\ Idle
  /\ \/ Rescroll([te EXCEPT !.vscroll = (pos * VMax(te)) \div 1000])
     \/ Rescroll([te EXCEPT !.hscroll = (pos * HMax(te)) \div 1000])

(* WM_REDRAW: something covered these rows.                                *)
Exposed(first, last) == Idle /\ Redraw(te, first, last) /\ UNCHANGED <<te, batch>>

New == Idle /\ Rescroll(Fresh(NewText))

Opens(f) == Idle /\ Len(f) \in 1 .. FileLimit          (* else an alert      *)
Load(f)  == Opens(f) /\ ~Overruns(f) /\ Rescroll(Fresh(LoadedLines(f)))

FilesNow == Files \cup {SavedFile(te.lines)}

Event ==
  \/ \E k \in Keys : Key(k)
  \/ Drained \/ Blink \/ Arrowed \/ New
  \/ \E r \in 0 .. Rows - 1, c \in 0 .. Cols - 1 : Click(r, c)
  \/ \E pos \in Stops : Slid(pos)
  \/ \E r \in 0 .. Rows - 1, s \in 0 .. Rows - 1 : Exposed(r, s)
  \/ \E f \in FilesNow : Load(f)

(* The copy of the line runs over all that is behind line_buf and ends     *)
(* where there is no memory, and the program with it: te, that is in the   *)
(* way, means nothing any more.  It may then be started again.             *)
Overrun(f) == Opens(f) /\ Overruns(f) /\ running' = FALSE /\ UNCHANGED <<te, screen, batch>>
Start      == Rescroll(Fresh(InitialText)) /\ running' = TRUE

Next ==
  \/ running /\ Event /\ UNCHANGED running
  \/ running /\ \E f \in FilesNow : Overrun(f)
  \/ ~running /\ Start

Spec == Init /\ [][Next]_vars

(***************************************************************************)
(* What the editor is worth                                                *)
(***************************************************************************)
(* Between two events every row shows the text behind it, whatever part of *)
(* the window the last one redrew (textedit.c:709-731), and the only bar   *)
(* on it is the cursor's.                                                  *)
ScreenIsText ==
  running /\ Idle => \A r \in 0 .. Rows - 1 :
    screen[r].text = Drawn(te, r).text /\ screen[r].bars \subseteq Bars(te, r)

(* A program is uploaded whole, unless it fills the buffer to the last     *)
(* character: then its last line is missing (main.c:880).                  *)
UploadIsText ==
  running /\ Idle =>
  \/ UploadBuf(te.lines) = Flat(te.lines)
  \/ /\ Len(Flat(te.lines)) + 1 = FileLimit
     /\ UploadBuf(te.lines) = Flat(Front(te.lines)) \o <<LF>>

(* A text that is saved, and not refused for its size, is loaded as it     *)
(* was, an empty last line excepted (main.c:1043, 1150), and never ends    *)
(* the program.                                                            *)
SaveIsLoaded ==
  LET f == SavedFile(te.lines) IN
  running /\ Idle /\ Len(f) \in 1 .. FileLimit =>
    /\ ~Overruns(f)
    /\ LoadedLines(f) =
         IF Last(te.lines) = <<>> THEN Front(te.lines) ELSE te.lines

(* The user edits one text: as long as the program runs and the cursor is  *)
(* on a line of the array, every step is one of TextBuffer.  Nothing takes *)
(* the cursor off the lines but a file without a line, one that begins     *)
(* with NUL (main.c:1156): Enter then puts it below the only line, and     *)
(* what is typed there is lost.  A file that overruns loses the text with  *)
(* the program (main.c:1165).                                              *)
OnText == te.row < Len(te.lines)
Point(t) == Len(Flat(SubSeq(t.lines, 1, t.row))) + (IF t.row > 0 THEN 1 ELSE 0) + t.col
Promise == INSTANCE TextBuffer WITH
  Letters <- Chars, LineBreak <- LF, Width <- MaxLen, text <- Flat(te.lines), point <- Point(te)
EditsOneText ==
  /\ Promise!TextInit
  /\ [][running /\ running' /\ OnText => Promise!TextNext]_(Promise!textVars)
  /\ [][OnText /\ ~OnText' => te'.lines = <<>>]_te
=============================================================================
