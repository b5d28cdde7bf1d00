----------------------------- MODULE Visualizer -----------------------------
(***************************************************************************)
(* From a program to what is seen of it: parse.py's tree, the streams that *)
(* straighten makes of it, and the page's #template rendered with them by  *)
(* mustache.js, again and again as the percentile changes.  The writer is  *)
(* also used alone, on the libraries of Mustache.                          *)
(***************************************************************************)
EXTENDS Mustache, Streams, TLC

VARIABLES
  cached_data,  \* the program that the page was given, or none
  drawn         \* the percentile it was last drawn for, or NoTime

vars == <<mustache, cached_data, drawn>>

NoLibrary == [templates |-> {}, views |-> {}, partials |-> {}, tags |-> {}]

Init ==
  /\ MustacheInit
  /\ drawn = NoTime
  /\ \/ library \in Libraries /\ cached_data = << >>
     \/ library = NoLibrary /\ cached_data \in Programs

(***************************************************************************)
(* visualize.html's #template, without the markup that says nothing        *)
(***************************************************************************)
Tag(type, name) == Piece(type, name, Braces)
Dot == << >>

PageTemplate ==
  << Newline, Char(" "), Tag("#", Dot), Newline, Tag("name", <<"title">>), Newline,
     Tag("#", <<"data">>), Char("<div>"),
     Tag("#", Dot),
     Tag("{", <<"instr", "instr">>), Tag("name", <<"descr">>), Tag("name", <<"length">>),
     Tag("/", Dot),
     Char("</div>"), Tag("/", <<"data">>), Newline, Char(" "), Tag("/", Dot), Newline >>

Text(text) == [kind |-> "text", text |-> text]
List(items) == [kind |-> "list", items |-> items]
Object(map) == [kind |-> "object", map |-> map]

(* descr shows when the instruction starts.                                *)
BoxView(box) ==
  Object([instr |-> Object([instr |-> Text(box.instr)]),
          descr |-> Text(ToString(box.start)),
          length |-> Text(ToString(box.length))])

(* The two boxes that stand for a stream are not in a list of their own.   *)
StreamView(stream) ==
  IF stream \in {NegativeTime, DeadlineMissed} THEN BoxView(stream[1])
  ELSE List([i \in DOMAIN stream |-> BoxView(stream[i])])

Title == Text("title")

(* render, for one program.                                                *)
Draw(at) ==
  LET streams == Streams(at, cached_data)
      view == List(<<Object([title |-> Title,
                             data |-> List([i \in DOMAIN streams |->
                                              StreamView(streams[i])])])>>)
  IN /\ cached_data # << >>
     /\ RenderCall(PageTemplate, view, NoPartials)
     /\ drawn' = at
     /\ UNCHANGED cached_data

Next ==
  \/ \E at \in DOMAIN Quantile : Draw(at)
  \/ MustacheNext /\ cached_data = << >> /\ UNCHANGED <<cached_data, drawn>>

Spec == Init /\ [][Next]_vars

-----------------------------------------------------------------------------
(* Every box stands where its time is, also in the streams that begin in   *)
(* the middle, behind a spacer.                                            *)
InPlace(stream) ==
  \A i \in DOMAIN stream :
    stream[i].start # NoTime => LengthOf(SubSeq(stream, 1, i - 1)) = stream[i].start

PauseEnds(streams) ==
  UNION {{stream[i].start + stream[i].length :
            i \in {k \in DOMAIN stream : stream[k].instr = "PAUSE"}} :
         stream \in ToSet(streams)}

(* A pause ends at the same time for every percentile, unless its deadline *)
(* is missed, which a shorter length never does first ("contract the       *)
(* length of pauses as we expand the other instructions").  That is not    *)
(* the time its future is due, see PausesOnTime.                           *)
Punctual(at) ==
  \A lower \in DOMAIN Quantile :
    lower <= at /\ Quantile[lower] >= 0
      => PauseEnds(Streams(at, cached_data)) \subseteq
           PauseEnds(Streams(lower, cached_data))

(* What is on the page of a stream.                                        *)
Written(stream) ==
  LET write(box) ==
        <<Text(box.instr), Escaped(Text(ToString(box.start))),
          Escaped(Text(ToString(box.length)))>>
      boxes == [i \in DOMAIN stream |-> write(stream[i])]
  IN <<Char("<div>")>> \o FlattenSeq(boxes) \o <<Char("</div>")>>

(* For whatever percentiles a program was drawn before, the page shows its *)
(* streams for the present one, all boxes of them and in order; they stand *)
(* at their times, also in streams that begin in the middle, and a pause   *)
(* ends when it does for every other percentile (render, straighten,       *)
(* make_spacer, Mustache.render).                                          *)
Shown ==
  drawn # NoTime =>
    LET streams == Streams(drawn, cached_data)
        parts == [i \in DOMAIN streams |-> Written(streams[i])]
    IN /\ output.text = <<Newline, Escaped(Title), Newline>> \o FlattenSeq(parts)
                           \o <<Newline>>
       /\ \A stream \in ToSet(streams) : InPlace(stream)
       /\ Punctual(drawn)

(* Pauses end when parse.py has scheduled their futures.  They do not: a   *)
(* pause is counted from the time its HALT begins and drawn behind it, and *)
(* the time it takes is not counted for the instructions that follow.      *)
PausesOnTime ==
  drawn # NoTime =>
    PauseEnds(Streams(drawn, cached_data)) \subseteq
      Range(Build(cached_data).builder.scheduled_time)
=============================================================================
