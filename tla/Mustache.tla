------------------------------ MODULE Mustache ------------------------------
(***************************************************************************)
(* Templates of mustache.js 0.7.2: parse makes the tokens of a template    *)
(* and nests them, renderTokens writes them out for a view, and a Writer   *)
(* keeps what it has compiled, by template and by the name of a partial.   *)
(*                                                                         *)
(* A template is a sequence of pieces, its characters and its tags; what   *)
(* is written in other delimiters than the present ones is no tag but      *)
(* text.  Positions count pieces.  A value of a view is a record with its  *)
(* kind.  What Context caches is left out: views do not change while they  *)
(* are rendered.                                                           *)
(***************************************************************************)
EXTENDS Integers, Sequences, SequencesExt

CONSTANTS
  Libraries,    \* of [templates, views, partials, tags]: what is used together
  MaxOps        \* bound: calls of the writer

VARIABLES
  library,
  cache,        \* of the writer: [template -> [tokens, tags]], tags is a history
  partialCache, \* [name -> template], as compiled in cache
  loadPartial,  \* the function that was given for partials, or NoLoader
  output,       \* what the last call gave: [call, text]
  ops

mustache == <<library, cache, partialCache, loadPartial, output, ops>>

Braces == <<"{{", "}}">>        \* exports.tags, which is left as it is
Proper(tags) == Len(tags) = 2   \* or the parser throws "Invalid tags"
Piece(type, value, tags) == [type |-> type, value |-> value, tags |-> tags]
Char(c) == Piece("text", <<c>>, << >>)
Newline == Char("\n")
NoLoader == << >>

(***************************************************************************)
(* parse                                                                   *)
(***************************************************************************)
(* The tag the scanner finds at this piece, if it is one.  "open" is an    *)
(* opening delimiter that nothing closes.                                  *)
IsTag(piece, tags) == piece.type # "text" /\ piece.tags = tags
IsWhitespace(piece) == piece \in {Char(" "), Newline}

Token(type, value, from, to) ==
  [type |-> type, value |-> value, from |-> from, to |-> to,
   kids |-> << >>, close |-> 0]
Deleted == Token("deleted", << >>, 0, 0)
Failed == <<Token("error", << >>, 0, 0)>>

Parser ==
  [pos |-> 0, tags |-> Braces, tokens |-> << >>, spaces |-> {}, hasTag |-> FALSE,
   nonSpace |-> FALSE, sections |-> << >>, failed |-> FALSE]

(* Variant: a line need not have a tag.                                    *)
StripSpaceAlways(p) ==
  [p EXCEPT !.tokens = IF p.nonSpace THEN @
                       ELSE [i \in DOMAIN @ |-> IF i \in p.spaces THEN Deleted
                                                ELSE @[i]],
            !.spaces = {}, !.hasTag = FALSE, !.nonSpace = FALSE]

(* The end of a line: its white space goes if it has tags and nothing else *)
(* that is written out.                                                    *)
StripSpace(p) ==
  [p EXCEPT !.tokens = IF ~p.hasTag \/ p.nonSpace THEN @
                       ELSE [i \in DOMAIN @ |-> IF i \in p.spaces THEN Deleted
                                                ELSE @[i]],
            !.spaces = {}, !.hasTag = FALSE, !.nonSpace = FALSE]

ParseText(p, piece) ==
  LET white == IsWhitespace(piece)
      q == [p EXCEPT !.tokens = Append(@, Token("text", <<piece>>, p.pos, p.pos + 1)),
                     !.spaces = IF white THEN @ \cup {Len(p.tokens) + 1} ELSE @,
                     !.nonSpace = @ \/ ~white,
                     !.pos = @ + 1]
  IN IF piece = Newline THEN StripSpace(q) ELSE q

ParseTag(p, piece) ==
  LET type == IF piece.type = "{" THEN "&" ELSE piece.type
      open == Last(p.sections)
      q == [p EXCEPT !.tokens = Append(@, Token(type, piece.value, p.pos, p.pos + 1)),
                     !.hasTag = TRUE,
                     !.pos = @ + 1]
      failed == [p EXCEPT !.failed = TRUE]
  IN CASE type = "open" -> failed
       [] type \in {"#", "^"} -> [q EXCEPT !.sections = Append(@, piece.value)]
       [] type = "/" ->
            IF p.sections = << >> THEN failed
            ELSE IF open # piece.value THEN failed
            ELSE [q EXCEPT !.sections = Front(@)]
       [] type \in {"name", "&"} -> [q EXCEPT !.nonSpace = TRUE]
       [] type = "=" /\ ~Proper(piece.value) -> failed
       [] type = "=" /\ Proper(piece.value) -> [q EXCEPT !.tags = piece.value]
       [] OTHER -> q

ParseStep(p, piece) ==
  IF p.failed THEN p
  ELSE IF IsTag(piece, p.tags) THEN ParseTag(p, piece)
  ELSE ParseText(p, piece)

(* Consecutive texts become one.                                           *)
SquashTokens(tokens) ==
  LET squash(done, token) ==
        IF token = Deleted THEN done
        ELSE IF token.type = "text" /\ done # << >> /\ Last(done).type = "text"
        THEN Append(Front(done), [Last(done) EXCEPT !.value = @ \o token.value,
                                                    !.to = token.to])
        ELSE Append(done, token)
  IN FoldLeft(squash, << >>, tokens)

ClosedBy(section, kids, token) ==
  [section EXCEPT !.kids = kids, !.close = token.from]

(* Sections get what stands between their tags.  The stack has the open    *)
(* sections and what each collector has so far, the tree itself first.     *)
NestTokens(tokens) ==
  LET nest(stack, token) ==
        CASE token.type \in {"#", "^"} ->
               Append(stack, [section |-> token, kids |-> << >>])
          [] token.type = "/" ->
               LET done == Last(stack)
                   below == Front(stack)
               IN Append(Front(below),
                         [Last(below) EXCEPT
                            !.kids = Append(@, ClosedBy(done.section, done.kids, token))])
          [] OTHER -> Append(Front(stack), [Last(stack) EXCEPT !.kids = Append(@, token)])
  IN FoldLeft(nest, <<[section |-> Deleted, kids |-> << >>]>>, tokens)[1].kids

ParseEnd(p) ==
  IF p.failed \/ p.sections # << >> THEN Failed
  ELSE NestTokens(SquashTokens(p.tokens))

Parse(template, tags) ==
  IF ~Proper(tags) THEN Failed
  ELSE ParseEnd(FoldLeft(ParseStep, [Parser EXCEPT !.tags = tags], template))

(***************************************************************************)
(* Context                                                                 *)
(***************************************************************************)
Absent == [kind |-> "absent"]
False == [kind |-> "false"]
Falsy(value) == value \in {Absent, False}

Member(value, name) ==
  IF value.kind = "object" /\ name \in DOMAIN value.map THEN value.map[name]
  ELSE Absent

(* A dotted name stops at what is falsy, be it a member or the view.       *)
Walk(view, names) ==
  LET step(value, name) == IF Falsy(value) THEN value ELSE Member(value, name)
  IN IF Len(names) = 1 THEN Member(view, names[1]) ELSE FoldLeft(step, view, names)

(* context is the stack of views, the innermost first; a name is the       *)
(* sequence of its parts, empty for ".".  A function is called at once.    *)
Lookup(context, names) ==
  LET found == {i \in DOMAIN context : Walk(context[i], names) # Absent}
      value == IF names = << >> THEN context[1]
               ELSE IF found = {} THEN Absent
               ELSE Walk(context[CHOOSE i \in found : \A j \in found : i <= j], names)
  IN IF value.kind = "function" THEN value.gives ELSE value

(***************************************************************************)
(* The writer: w is [cache, partialCache, loadPartial, text, failed], and  *)
(* text what was written so far                                            *)
(***************************************************************************)
Put(f, x, y) == [z \in DOMAIN f \cup {x} |-> IF z = x THEN y ELSE f[z]]

Compiled(w, template, tags, tokens) ==
  IF tokens = Failed THEN [w EXCEPT !.failed = TRUE]
  ELSE [w EXCEPT !.cache = Put(@, template, [tokens |-> tokens, tags |-> tags])]

(* compile: what is cached is found by the template alone, whatever the    *)
(* delimiters.  An exception ends the call.                                *)
Compile(w, template, tags) ==
  IF w.failed \/ template \in DOMAIN w.cache THEN w
  ELSE Compiled(w, template, tags, Parse(template, tags))

(* Variant: keeps a partial that is there.                                 *)
NamedOnce(compiled, name, template) ==
  IF compiled.failed \/ name \in DOMAIN compiled.partialCache THEN compiled
  ELSE [compiled EXCEPT !.partialCache = Put(@, name, template)]

Named(compiled, name, template) ==
  IF compiled.failed THEN compiled
  ELSE [compiled EXCEPT !.partialCache = Put(@, name, template)]

CompilePartial(w, name, template, tags) ==
  Named(Compile(w, template, tags), name, template)

GetPartial(w, name) ==
  IF name \in DOMAIN w.partialCache \/ w.loadPartial = NoLoader THEN w
  ELSE CompilePartial(w, name, w.loadPartial[name], Braces)

Write(w, x) == [w EXCEPT !.text = Append(@, x)]
Escaped(value) == [kind |-> "escaped", of |-> value]

RECURSIVE RenderTokens(_, _, _, _)

RenderCompiled(w, context, text) ==
  IF w.failed THEN w ELSE RenderTokens(w, w.cache[text].tokens, context, text)

(* The section of a value: once for each member of a list, for an object   *)
(* or a value that is truthy once; a function has the text between the     *)
(* tags and may have the writer render it.                                 *)
RenderSection(w, token, value, context, template) ==
  CASE value.kind = "list" ->
         FoldLeft(LAMBDA v, item :
                    RenderTokens(v, token.kids, <<item>> \o context, template),
                  w, value.items)
    [] value.kind = "object" ->
         RenderTokens(w, token.kids, <<value>> \o context, template)
    [] value.kind = "section" ->
         LET text == SubSeq(template, token.to + 1, token.close)
         IN RenderCompiled(Compile(w, text, Braces), context, text)
    [] value.kind = "text" -> RenderTokens(w, token.kids, context, template)
    [] OTHER -> w

RenderPartial(w, name, context) ==
  IF w.failed \/ name \notin DOMAIN w.partialCache THEN w
  ELSE RenderCompiled(w, context, w.partialCache[name])

RenderToken(w, token, context, template) ==
  LET value == Lookup(context, token.value) IN
  IF w.failed THEN w ELSE
  CASE token.type = "#" -> RenderSection(w, token, value, context, template)
    [] token.type = "^" ->
         IF Falsy(value) \/ (value.kind = "list" /\ value.items = << >>)
         THEN RenderTokens(w, token.kids, context, template) ELSE w
    [] token.type = ">" -> RenderPartial(GetPartial(w, token.value), token.value, context)
    [] token.type = "&" -> IF value = Absent THEN w ELSE Write(w, value)
    [] token.type = "name" -> IF value = Absent THEN w ELSE Write(w, Escaped(value))
    [] token.type = "text" -> [w EXCEPT !.text = @ \o token.value]
    [] OTHER -> w

RenderTokens(w, tokens, context, template) ==
  FoldLeft(LAMBDA v, token : RenderToken(v, token, context, template), w, tokens)

(* The compiled function: partials are an object, or a function (here all  *)
(* that it returns, marked) that is kept for later.  There is no compiled   *)
(* function if the template could not be parsed.                           *)
Given(w, partials) ==
  IF w.failed THEN w
  ELSE IF partials.loader THEN [w EXCEPT !.loadPartial = partials.map]
  ELSE FoldLeft(LAMBDA v, name : CompilePartial(v, name, partials.map[name], Braces),
                w, SetToSeq(DOMAIN partials.map))

Render(w, template, view, partials) ==
  RenderCompiled(Given(Compile(w, template, Braces), partials), <<view>>, template)

-----------------------------------------------------------------------------
Empty == [x \in {} |-> 0]
NoPartials == [loader |-> FALSE, map |-> Empty]
Fresh == [cache |-> Empty, partialCache |-> Empty, loadPartial |-> NoLoader,
          text |-> << >>, failed |-> FALSE]
Writer == [cache |-> cache, partialCache |-> partialCache,
           loadPartial |-> loadPartial, text |-> << >>, failed |-> FALSE]
NoCall == [template |-> << >>, tags |-> Braces, view |-> Absent,
           partials |-> NoPartials]

MustacheInit ==
  /\ cache = Empty
  /\ partialCache = Empty
  /\ loadPartial = NoLoader
  /\ output = [call |-> NoCall, text |-> << >>, failed |-> FALSE]
  /\ ops = 0

Becomes(w, call) ==
  /\ ops < MaxOps
  /\ ops' = ops + 1
  /\ cache' = w.cache
  /\ partialCache' = w.partialCache
  /\ loadPartial' = w.loadPartial
  /\ output' = [call |-> call, text |-> w.text, failed |-> w.failed]
  /\ UNCHANGED library

RenderCall(template, view, partials) ==
  Becomes(Render(Writer, template, view, partials),
          [template |-> template, tags |-> Braces, view |-> view,
           partials |-> partials])

(* Mustache.compile, which may be given delimiters.                        *)
CompileCall(template, tags) ==
  Becomes(Compile(Writer, template, tags),
          [NoCall EXCEPT !.template = template, !.tags = tags])

CompilePartialCall(name, template, tags) ==
  Becomes(CompilePartial(Writer, name, template, tags),
          [NoCall EXCEPT !.template = template, !.tags = tags])

ClearCache ==
  Becomes([Writer EXCEPT !.cache = Empty, !.partialCache = Empty], NoCall)

MustacheNext ==
  \/ \E template \in library.templates, view \in library.views,
        partials \in library.partials : RenderCall(template, view, partials)
  \/ \E template \in library.templates, tags \in library.tags :
       CompileCall(template, tags)
  \/ \E partials \in library.partials, tags \in library.tags :
       \E name \in DOMAIN partials.map :
         CompilePartialCall(name, partials.map[name], tags)
  \/ ClearCache

(***************************************************************************)
(* Properties                                                              *)
(***************************************************************************)
(* The delimiters at each piece: an "=" tag counts if it is one itself.    *)
TagsAt(template, tags) ==
  LET at[i \in 1 .. Len(template) + 1] ==
        IF i = 1 THEN tags
        ELSE LET before == template[i - 1]
             IN IF before.type = "=" /\ before.tags = at[i - 1] THEN before.value
                ELSE at[i - 1]
  IN at

(* White space that is dropped: its line ends, has a tag, and has nothing  *)
(* else that is written out.                                               *)
Dropped(template, tags, i) ==
  LET newlines == {k \in DOMAIN template : template[k] = Newline}
      line == {k \in DOMAIN template :
                 ~\E n \in newlines : (k <= n /\ n < i) \/ (i <= n /\ n < k)}
      tag(k) == IsTag(template[k], TagsAt(template, tags)[k])
  IN /\ IsWhitespace(template[i])
     /\ \E n \in newlines : n \in line
     /\ \E k \in line : tag(k)
     /\ \A k \in line : \/ IsWhitespace(template[k])
                        \/ tag(k) /\ template[k].type \notin {"name", "&", "{"}

(* Sections are closed by name and do not overlap, all tags end, and       *)
(* delimiters are two.                                                     *)
WellFormed(template, tags) ==
  LET tag(k) == IsTag(template[k], TagsAt(template, tags)[k])
      opening == {k \in DOMAIN template : tag(k) /\ template[k].type \in {"#", "^"}}
      closing == {k \in DOMAIN template : tag(k) /\ template[k].type = "/"}
  IN /\ Proper(tags)
     /\ \A k \in DOMAIN template :
          tag(k) => /\ template[k].type # "open"
                    /\ template[k].type = "=" => Proper(template[k].value)
     /\ \E ends \in [opening -> closing] :
          /\ {ends[k] : k \in opening} = closing
          /\ \A k \in opening : k < ends[k] /\ template[ends[k]].value = template[k].value
          /\ \A k, m \in opening : k < m => ends[m] < ends[k] \/ ends[k] < m

RECURSIVE Flat(_, _)
(* The pieces that a tree of tokens stands for.                            *)
Flat(template, tokens) ==
  FoldLeft(LAMBDA pieces, token :
             pieces \o
             CASE token.type = "text" -> token.value
               [] token.type \in {"#", "^"} ->
                    <<template[token.to]>> \o Flat(template, token.kids)
                      \o <<template[token.close + 1]>>
               [] OTHER -> <<template[token.to]>>,
           << >>, tokens)

(* Every partial the template may come to is in the object.                *)
Partials(template) == {template[i].value : i \in {k \in DOMAIN template :
                                                   template[k].type = ">"}}
Complete(call) ==
  /\ ~call.partials.loader
  /\ \A template \in {call.template} \cup
                      {call.partials.map[name] : name \in DOMAIN call.partials.map} :
       Partials(template) \subseteq DOMAIN call.partials.map

(* Parsing a template gives its pieces in their order, each section with   *)
(* what is between its tags and with the place where these are, but for    *)
(* the white space of lines that have only tags; it fails exactly if       *)
(* sections do not match, a tag does not end or delimiters are not two: of *)
(* the template, of a partial, or of the text of a function's section,     *)
(* which is parsed again with the braces (parse, stripSpace, squashTokens, *)
(* nestTokens).                                                            *)
RECURSIVE HasFunction(_)
HasFunction(value) ==
  \/ value.kind = "function"
  \/ value.kind = "object" /\ \E n \in DOMAIN value.map : HasFunction(value.map[n])
  \/ value.kind = "list" /\ \E i \in DOMAIN value.items : HasFunction(value.items[i])

SectionTexts(template) ==
  {SubSeq(template, k + 1, m - 1) : k, m \in {n \in DOMAIN template :
                                              template[n].type \in {"#", "/"}}}
Refusable(call) ==
  LET partials == {call.partials.map[name] : name \in DOMAIN call.partials.map}
      texts == UNION {SectionTexts(template) : template \in {call.template} \cup partials}
  IN \/ ~WellFormed(call.template, call.tags)
     \/ \E template \in partials : ~WellFormed(template, Braces)
     \/ HasFunction(call.view) /\ \E text \in texts : ~WellFormed(text, Braces)

Parsed ==
  /\ \A template \in DOMAIN cache :
       LET tags == cache[template].tags
           keeps(i) == ~Dropped(template, tags, i)
           kept == SelectSeq([i \in DOMAIN template |-> i], keeps)
       IN /\ WellFormed(template, tags)
          /\ Flat(template, cache[template].tokens) =
               [i \in DOMAIN kept |-> template[kept[i]]]
  /\ output.failed /\ Complete(output.call) => Refusable(output.call)

(* What a template is rendered to with all of its partials depends on      *)
(* these and the view, and on nothing that the writer has compiled, loaded *)
(* or cleared before, if it keeps nothing that was compiled for other      *)
(* delimiters than the braces (Writer's _cache and _partialCache).         *)
Gives(w) == output.text = w.text /\ output.failed = w.failed
RenderedAfresh(call) ==
  call.view # Absent =>
    Gives(Render(Fresh, call.template, call.view, call.partials))

Rendered ==
  /\ Complete(output.call)
  /\ \A template \in DOMAIN cache : cache[template].tags = Braces
  => RenderedAfresh(output.call)

(* The same with partials left out or loaded by a function, for which the  *)
(* writer answers with those of an earlier call, and with templates        *)
(* compiled for other delimiters, for which it answers with their tokens.  *)
RenderedAlways == RenderedAfresh(output.call)
RenderedWithTags == Complete(output.call) => RenderedAfresh(output.call)
=============================================================================
