----------------------------- MODULE TuiSerial -----------------------------
(* The terminal user interface over the USB serial port: SerialBackend's     *)
(* tracking of the cursor and the style, the two Tui front ends that queue   *)
(* its bytes and drain them as the host reads, and CprParser.  The terminal  *)
(* on the host and ratatui's Terminal (diff, autoresize, clear) are external.*)
EXTENDS Integers, Sequences, SequencesExt, FiniteSetsExt

CONSTANTS TuiCols, TuiRows,          \* the size assumed until the terminal reports its own
          TuiWidths, TuiHeights,     \* the sizes the host's terminal may have
          TuiAttaches,  \* terminals that may open the port
          TuiMops,      \* repaints after the terminal attaches
          TuiTail,      \* bound on the bytes the parser is fed after an ESC
          CprMax        \* the largest count a u16 holds, scaled down

VARIABLES ui,           \* the Tui and its backend: size, tracking, queued bytes
          term,         \* the host's terminal
          cpr           \* CprParser and, for the property, its input since the last ESC
tuiVars == <<ui, term, cpr>>

TuiAssumed == << TuiCols, TuiRows >>
TuiSizes == TuiWidths \X TuiHeights

Unknown == <<99, 99>>                      \* u16::MAX: no cell is there
Home == <<0, 0>>
Blank == [sym |-> "", style |-> 0]
Glyphs == << Blank, [sym |-> "a", style |-> 1], [sym |-> "b", style |-> 2] >>

ScreenCells(size) == {<<x, y>> : x \in 0..(size[1] - 1), y \in 0..(size[2] - 1)}
RowMajor(S) == SetToSortSeq(S, LAMBDA p, q : p[2] < q[2] \/ (p[2] = q[2] /\ p[1] < q[1]))
BlankScreen(size) == [p \in ScreenCells(size) |-> Blank]

(* What the application draws in frame n: a few cells change, some do not.   *)
Frame(n, size) == [p \in ScreenCells(size) |-> Glyphs[1 + ((n * (p[1] + (2 * p[2]) + 1)) % 3)]]

-----------------------------------------------------------------------------
(* SerialBackend.  A token is one escape sequence or one printed symbol.     *)

Token(op, at, sym, style) == [op |-> op, at |-> at, sym |-> sym, style |-> style]
Plain(op) == Token(op, Home, "", 0)
Emit(b, token) == [b EXCEPT !.out = Append(@, token)]

MoveTo(b, p) == [Emit(b, Token("move", p, "", 0)) EXCEPT !.cursor = p]

ApplyStyle(b, style) ==
    IF b.valid /\ b.style = style THEN b
    ELSE [Emit(b, Token("sgr", Home, "", style)) EXCEPT !.style = style, !.valid = TRUE]

DrawCell(b, p, cell) ==
    LET moved  == IF b.cursor # p THEN MoveTo(b, p) ELSE b
        styled == ApplyStyle(moved, cell.style)
    IN [Emit(styled, Token("print", Home, cell.sym, 0)) EXCEPT !.cursor = <<p[1] + 1, p[2]>>]

\* a slip: the style is taken to survive the clear
ClearTrustsStyle(b) == MoveTo(Emit(b, Plain("erase")), Home)
Clear(b) == [MoveTo(Emit(b, Plain("erase")), Home) EXCEPT !.valid = FALSE]

RequestSize(b) == [Emit(b, Plain("query")) EXCEPT !.cursor = Unknown]

(* ratatui's Terminal: clear erases and forgets the last frame; draw resizes *)
(* to the backend's size first, then draws the cells that differ.            *)
TerminalClear(b) == [Emit(b, Plain("erase")) EXCEPT !.shown = BlankScreen(b.area)]

Autoresize(b) == IF b.area = b.size THEN b ELSE TerminalClear([b EXCEPT !.area = b.size])

TerminalDraw(b, n) ==
    LET sized  == Autoresize(b)
        frame  == Frame(n, sized.area)
        differ == RowMajor({p \in ScreenCells(sized.area) : frame[p] # sized.shown[p]})
    IN [Emit(FoldLeft(LAMBDA c, p : DrawCell(c, p, frame[p]), sized, differ), Plain("hide"))
            EXCEPT !.shown = frame]

(* Tui::new, full_clear, on_connect, drain_to.                               *)
TuiNew == RequestSize(Clear([size |-> TuiAssumed, area |-> TuiAssumed, cursor |-> Home,
                             style |-> 0, valid |-> FALSE, out |-> << Plain("hide") >>,
                             shown |-> BlankScreen(TuiAssumed)]))

\* a slip: the hard clear leaves ratatui's last frame in place
FullClearKeepsFrame(b) == Emit(Clear(b), Plain("hide"))
FullClear(b) == Emit(Clear(TerminalClear(b)), Plain("hide"))

-----------------------------------------------------------------------------
(* The terminal: it clamps a cursor move, wraps lazily at the last column,   *)
(* scrolls at the last row, and answers a query with its size.               *)

Attached(size, garbage) == [there |-> TRUE, size |-> size, cursor |-> Home, style |-> 0,
                            screen |-> [p \in ScreenCells(size) |-> garbage],
                            replies |-> <<>>, clean |-> TRUE]

Clamp(p, size) == << Min({p[1], size[1] - 1}), Min({p[2], size[2] - 1}) >>

Printed(t, sym) ==
    LET wraps   == t.cursor[1] >= t.size[1]
        scrolls == wraps /\ t.cursor[2] + 1 >= t.size[2]
        at      == IF wraps THEN << 0, Min({t.cursor[2] + 1, t.size[2] - 1}) >> ELSE t.cursor
        above   == IF scrolls
                   THEN [p \in ScreenCells(t.size) |-> IF p[2] + 1 < t.size[2]
                                                 THEN t.screen[<< p[1], p[2] + 1 >>] ELSE Blank]
                   ELSE t.screen
    IN [t EXCEPT !.screen = [above EXCEPT ![at] = [sym |-> sym, style |-> t.style]],
                 !.cursor = << at[1] + 1, at[2] >>]

Shows(t, token) ==
    CASE token.op = "move"  -> [t EXCEPT !.cursor = Clamp(token.at, t.size)]
      [] token.op = "sgr"   -> [t EXCEPT !.style = token.style]
      [] token.op = "print" -> Printed(t, token.sym)
      [] token.op = "erase" -> [t EXCEPT !.screen = BlankScreen(t.size)]
      [] token.op = "query" -> [t EXCEPT !.replies = Append(@, t.size)]
      [] OTHER -> t

-----------------------------------------------------------------------------
(* The loops that drive it.  The audio device finds its terminal open; the   *)
(* memory test waits for one (DTR) once, the Hothouse panel for any number;  *)
(* both clear it when it comes and mop up its banner a few times.            *)

Absent == [Attached(TuiAssumed, Blank) EXCEPT !.there = FALSE]

TuiInit ==
    /\ \E attaches \in 0..TuiAttaches : ui = [b |-> TuiNew, attaches |-> attaches, dtr |-> FALSE, mops |-> 0]
    /\ IF ui.attaches > 0 THEN term = Absent
       ELSE \E size \in TuiSizes : term = Attached(size, Glyphs[2])
    /\ cpr = [state |-> "Idle", rows |-> 0, cols |-> 0, out |-> <<>>, seen |-> <<>>]

TuiRender ==
    /\ ui.b.out = <<>>                                       \* !output_pending()
    /\ \E n \in 0..2 : ui' = [ui EXCEPT !.b = TerminalDraw(@, n)]
    /\ UNCHANGED <<term, cpr>>

(* drain_to: write() takes a part of the queue, here one token at a time; a  *)
(* host that is not there takes the bytes of a packet and drops them.        *)
TuiDrain ==
    /\ ui.b.out # <<>>
    /\ ui' = [ui EXCEPT !.b.out = Tail(@)]
    /\ term' = IF term.there THEN Shows(term, Head(ui.b.out)) ELSE term
    /\ UNCHANGED cpr

(* on_input: a report that differs from the size in use resizes the backend. *)
OnInput ==
    /\ term.replies # <<>>
    /\ term' = [term EXCEPT !.replies = Tail(@)]
    /\ ui' = [ui EXCEPT !.b.size = Head(term.replies)]
    /\ UNCHANGED cpr

(* A terminal opens the port: what is still queued reaches it first, and the *)
(* packet that went before may have ended inside an escape sequence, whose   *)
(* last bytes the new terminal then prints.                                  *)
Cut(out, n) == [k \in 1..n |-> Token("print", Home, "?", 0)] \o Tail(out)

Attach ==
    /\ ui.attaches > 0 /\ ~term.there
    /\ \E size \in TuiSizes :
          term' = [Attached(size, Glyphs[2]) EXCEPT !.clean = FALSE, !.replies = term.replies]
    /\ \E out \in {ui.b.out} \cup
                  IF ui.b.out # <<>> /\ Head(ui.b.out).op # "print" THEN {Cut(ui.b.out, n) : n \in 1..2} ELSE {} :
          ui' = [ui EXCEPT !.attaches = @ - 1, !.b.out = out]
    /\ UNCHANGED cpr

(* The loop sees DTR rise.                                                   *)
OnConnect ==
    /\ term.there /\ ~ui.dtr /\ term.clean = FALSE
    /\ term' = [term EXCEPT !.clean = TRUE]
    /\ ui' = [ui EXCEPT !.b = RequestSize(FullClear(@)), !.dtr = TRUE, !.mops = TuiMops]
    /\ UNCHANGED cpr

Detach ==
    /\ term.there /\ ui.dtr /\ ui.attaches > 0
    /\ term' = [term EXCEPT !.there = FALSE]
    /\ ui' = [ui EXCEPT !.dtr = FALSE]
    /\ UNCHANGED cpr

(* The client prints its own banner over the screen after the first clear.   *)
Banner ==
    /\ term.there /\ ui.dtr /\ ui.mops > 0 /\ term.clean
    /\ term' = [term EXCEPT !.screen[Home] = Glyphs[3], !.cursor = Home,
                            !.style = 0, !.clean = FALSE]
    /\ UNCHANGED <<ui, cpr>>

Repaint ==
    /\ ui.mops > 0
    /\ ui' = [ui EXCEPT !.b = FullClear(@), !.mops = @ - 1]
    /\ term' = [term EXCEPT !.clean = term.clean \/ ui.dtr]
    /\ UNCHANGED cpr

-----------------------------------------------------------------------------
(* CprParser: bytes are the kinds it tells apart, digits are numbers.        *)

ESC == 27
Open == 91                                 \* '['
Semicolon == 59
Report == 82                               \* 'R'
Key == 120
Digits == {1, 9}
CprBytes == Digits \cup {ESC, Open, Semicolon, Report, Key}

\* a slip: an ESC inside a report does not start the next one
RestartIdle(c, b) == [c EXCEPT !.state = "Idle"]
Restart(c, b) == [c EXCEPT !.state = IF b = ESC THEN "Esc" ELSE "Idle"]
Grown(n, d) == Min({Min({n * 10, CprMax}) + d, CprMax})

CprPush(c, b) ==
    LET c0 == [c EXCEPT !.out = <<>>]
        To(state, rows, cols) == [c0 EXCEPT !.state = state, !.rows = rows, !.cols = cols]
    IN CASE c.state = "Idle" -> IF b = ESC THEN To("Esc", c.rows, c.cols) ELSE c0
         [] c.state = "Esc" -> IF b = Open THEN To("Bracket", c.rows, c.cols) ELSE Restart(c0, b)
         [] c.state = "Bracket" /\ b \in Digits -> To("Rows", b, c.cols)
         [] c.state = "Rows" /\ b \in Digits -> To("Rows", Grown(c.rows, b), c.cols)
         [] c.state = "Rows" /\ b = Semicolon -> To("Semi", c.rows, 0)
         [] c.state = "Semi" /\ b \in Digits -> To("Cols", c.rows, b)
         [] c.state = "Cols" /\ b \in Digits -> To("Cols", c.rows, Grown(c.cols, b))
         [] c.state = "Cols" /\ b = Report -> [c0 EXCEPT !.state = "Idle", !.out = << c.cols, c.rows >>]
         [] OTHER -> Restart(c0, b)

(* ESC [ digits ; digits R, or a beginning of it.                            *)
Begins(s) == \E semi \in 4..(Len(s) + 4) : \A i \in 1..Len(s) :
    s[i] \in CASE i = 1 -> {ESC}
               [] i = 2 -> {Open}
               [] i = semi -> {Semicolon}
               [] i = Len(s) /\ i > semi + 1 -> Digits \cup {Report}
               [] OTHER -> Digits
IsReport(s) == Begins(s) /\ s # <<>> /\ Last(s) = Report

CprFeed ==
    /\ \E b \in CprBytes :
          LET seen == IF b = ESC THEN <<ESC>> ELSE Append(cpr.seen, b)
          IN /\ Len(seen) <= TuiTail
             /\ cpr' = [CprPush(cpr, b) EXCEPT !.seen = IF Begins(seen) THEN seen ELSE <<>>]
    /\ UNCHANGED <<ui, term>>

TuiNext == TuiRender \/ TuiDrain \/ OnInput \/ Attach \/ OnConnect \/ Detach \/ Banner \/ Repaint
CprNext == CprFeed

-----------------------------------------------------------------------------
(* Types: the screen and the last frame are full, the counts fit a u16.      *)
TuiTypeOK ==
    /\ ui.mops \in 0..TuiMops
    /\ DOMAIN ui.b.shown = ScreenCells(ui.b.area)
    /\ DOMAIN term.screen = ScreenCells(term.size)
    /\ cpr.rows \in 0..CprMax /\ cpr.cols \in 0..CprMax

(* Once the queued bytes are out, the terminal shows the frame ratatui drew, *)
(* symbol by symbol, with the style of each cell that has one: the tracking  *)
(* of cursor and style survives the last column, the size query, partial     *)
(* writes, a resize, a terminal that attaches in the middle of the stream or *)
(* of an escape sequence, and a banner.                                      *)
ScreenDrawn ==
    (ui.b.out = <<>> /\ term.there /\ term.clean /\ ui.b.area = term.size) =>
        \A p \in ScreenCells(term.size) :
            /\ term.screen[p].sym = ui.b.shown[p].sym
            /\ ui.b.shown[p] # Blank => term.screen[p].style = ui.b.shown[p].style

(* A report is found exactly where the bytes since an ESC are one, whatever  *)
(* keys precede or break it, with each count cut off at the largest u16.     *)
Numeral(digits) == FoldLeft(LAMBDA n, d : Min({(n * 10) + d, CprMax}), 0, digits)
Reported(s) == LET k == CHOOSE i \in 4..(Len(s) - 2) : s[i] = Semicolon
               IN << Numeral(SubSeq(s, k + 1, Len(s) - 1)), Numeral(SubSeq(s, 3, k - 1)) >>
ReportsFound == cpr.out = (IF IsReport(cpr.seen) THEN Reported(cpr.seen) ELSE <<>>)
=============================================================================
