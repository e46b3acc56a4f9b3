------------------------------ MODULE TokenQueue ------------------------------
(***************************************************************************)
(* The lexer's tokens (lexer.c) between the source and the parsers, which   *)
(* look several tokens ahead and put them back.  A token stays in a circle  *)
(* of CircleSize entries, with the symbol table index or keyword it was     *)
(* read as and the lexical context it was read in; its text stays in one of *)
(* the buffers of lextexts[] until release_token_texts(), at the start of   *)
(* the next directive or statement.  Reading ahead enters new names in the  *)
(* symbol table and putting them back takes them out again.                 *)
(*                                                                          *)
(* A parser is any client that reads in any context and puts back up to     *)
(* LookAhead of the tokens it has read since the last release.  The module  *)
(* is SymbolTable's first user; characters, numbers and strings are left    *)
(* out: a lexeme is an identifier (1..Names, some of them keywords in some  *)
(* contexts) or the separator 0.                                            *)
(***************************************************************************)
EXTENDS SymbolTable

CONSTANTS CircleSize,          \* CIRCLE_SIZE
          LookAhead,           \* tokens put back at once by any parser
          Sources,             \* the texts: sequences of lexemes
          Keyword,             \* context -> the identifiers that are keywords in it
          Quoting,             \* the contexts with dont_enter_into_symbol_table
          MaxSymbols,          \* bound on no_symbols
          SkipsInDefinitions   \* may an internal If... skip text while token texts are in use?

ASSUME TokenAssumption ==
  /\ CircleSize \in Nat \ {0} /\ LookAhead \in 0..CircleSize
  /\ Sources \subseteq Seq(Nat)
  /\ "none" \notin DOMAIN Keyword

VARIABLES source,            \* the text
          read,              \* how much of it the lexer has made tokens of
          circle,            \* circle[], numbered from 0
          circle_position,
          tokens_put_back,
          lextexts,          \* lextexts[]: slot -> buffer
          cur_lextexts,
          buffers,           \* the texts they hold
          table,             \* the symbol table
          taken,             \* the parser's side: what it has read and not put back
          held,              \* the tokens whose texts it may still use, as [word, text]
          outer              \* those of the definition that a skipped internal If... interrupts

lexerVars == <<circle, circle_position, tokens_put_back, lextexts, cur_lextexts, buffers, table, read>>
tokenVars == <<source, lexerVars, taken, held, outer>>

Contexts == DOMAIN Keyword
EndOfText == 0 - 1

(* A token that no context has read yet, or that must be read anew.         *)
NoContext == "none"

EmptyEntry == [type |-> "none", value |-> 0, newsymbol |-> FALSE, text |-> 0,
               lextext |-> 0, context |-> NoContext]

(* A step back around the circle.                                           *)
Back(position, n) ==
  IF position + 1 < n THEN position + 1 + CircleSize - n ELSE position + 1 - n

(* interpret_identifier: the entry and the table it leaves.                 *)
interpret_identifier(entry, word, context, T) ==
  LET plain == [entry EXCEPT !.newsymbol = FALSE] IN
  IF context \in Quoting
  THEN [entry |-> [plain EXCEPT !.type = "unquoted", !.value = 0], table |-> T]
  ELSE IF word \in Keyword[context]
  THEN [entry |-> [plain EXCEPT !.type = "keyword", !.value = word], table |-> T]
  ELSE LET s == symbol_index(T, word) IN
       [entry |-> [plain EXCEPT !.type = "symbol", !.value = s.index, !.newsymbol = s.created],
        table |-> s.table]

(* The lexeme the source has next.                                          *)
NextLexeme == IF read < Len(source) THEN source[read + 1] ELSE EndOfText

(* Bug: only what was a symbol is read again.                               *)
RereadsBug(entry, context) == entry.context # context /\ entry.type = "symbol"

(* A token put back is read again only where the context differs and its    *)
(* type is one an identifier can have.                                      *)
Rereads(entry, context) == entry.context # context /\ entry.type \in {"symbol", "keyword"}

Delivered(entry, word) == [word |-> word, type |-> entry.type, value |-> entry.value,
                           context |-> entry.context, text |-> entry.text]

GetPutBack(context) ==
  LET i == Back(circle_position, tokens_put_back)
      word == buffers[circle[i].text]
      r == IF Rereads(circle[i], context)
           THEN interpret_identifier(circle[i], word, context, table)
           ELSE [entry |-> circle[i], table |-> table]
      entry == [r.entry EXCEPT !.context = context]
  IN /\ tokens_put_back > 0
     /\ circle' = [circle EXCEPT ![i] = entry]
     /\ table' = r.table
     /\ tokens_put_back' = tokens_put_back - 1
     /\ taken' = Append(taken, Delivered(entry, word))
     /\ UNCHANGED <<source, read, circle_position, lextexts, cur_lextexts, buffers, held, outer>>

(* A fresh token takes the next slot of lextexts[], and a new buffer where  *)
(* there were never so many.                                                *)
GetFresh(context) ==
  LET i == IF circle_position = CircleSize - 1 THEN 0 ELSE circle_position + 1
      lex_index == cur_lextexts + 1
      fresh == lex_index > Len(lextexts)
      buffer == IF fresh THEN Len(lextexts) + 1 ELSE lextexts[lex_index]
      word == NextLexeme
      blank == [EmptyEntry EXCEPT !.text = buffer, !.lextext = lex_index, !.context = context]
      r == IF word > 0 THEN interpret_identifier(blank, word, context, table)
           ELSE [entry |-> [blank EXCEPT !.type = IF word = 0 THEN "separator" ELSE "eof"],
                 table |-> table]
  IN /\ tokens_put_back = 0
     /\ read <= Len(source)
     /\ read' = read + 1
     /\ circle_position' = i
     /\ cur_lextexts' = lex_index
     /\ lextexts' = IF fresh THEN Append(lextexts, buffer) ELSE lextexts
     /\ buffers' = IF fresh THEN Append(buffers, word) ELSE [buffers EXCEPT ![buffer] = word]
     /\ circle' = [circle EXCEPT ![i] = r.entry]
     /\ table' = r.table
     /\ taken' = Append(taken, Delivered(r.entry, word))
     /\ held' = Append(held, [word |-> word, text |-> buffer])
     /\ UNCHANGED <<source, tokens_put_back, outer>>

get_next_token(context) == GetPutBack(context) \/ GetFresh(context)

(* Bug: the symbol stays in the table.                                      *)
PutBackSymbolBug(entry, T) ==
  [entry |-> [entry EXCEPT !.newsymbol = FALSE], table |-> T]

(* A symbol the token made is taken out of the table; the token will have   *)
(* to be read anew.                                                         *)
PutBackSymbol(entry, T) ==
  IF entry.type = "symbol" /\ entry.newsymbol
  THEN [entry |-> [entry EXCEPT !.newsymbol = FALSE, !.context = NoContext],
        table |-> end_symbol_scope(T, entry.value, TRUE)]
  ELSE [entry |-> entry, table |-> T]

(* What the parsers never do: put back a token again read as text only,     *)
(* which no context would read as anything else after that, or put back a   *)
(* name that is new and stands twice in what they look at.                  *)
MayPutBack ==
  LET last == taken[Len(taken)] IN
  /\ tokens_put_back < LookAhead
  /\ tokens_put_back < Len(held)
  /\ last.type # "unquoted"
  /\ last.type = "symbol" =>
       \A k \in 1..Len(taken) :
         k > Len(taken) + tokens_put_back - LookAhead /\ k < Len(taken) =>
           taken[k].word # last.word

put_token_back ==
  /\ taken # <<>>
  /\ MayPutBack
  /\ LET i == Back(circle_position, tokens_put_back + 1)
         p == PutBackSymbol(circle[i], table)
     IN /\ circle' = [circle EXCEPT ![i] = p.entry]
        /\ table' = p.table
  /\ tokens_put_back' = tokens_put_back + 1
  /\ taken' = SubSeq(taken, 1, Len(taken) - 1)
  /\ UNCHANGED <<source, read, circle_position, lextexts, cur_lextexts, buffers, held, outer>>

(* Bug: the buffers of the tokens put back are copied, not exchanged.       *)
KeepTextBug(c, slots, i, ix) ==
  [circle |-> [c EXCEPT ![i].lextext = ix], lextexts |-> [slots EXCEPT ![ix] = slots[c[i].lextext]]]

(* The ix-th token put back, entry i of the circle, gets slot ix.           *)
KeepText(c, slots, i, ix) ==
  LET oldpos == c[i].lextext IN
  [circle |-> [c EXCEPT ![i].lextext = ix],
   lextexts |-> [slots EXCEPT ![ix] = slots[oldpos], ![oldpos] = slots[ix]]]

KeepTexts ==
  LET kept[ix \in 0..tokens_put_back] ==
        IF ix = 0 THEN [circle |-> circle, lextexts |-> lextexts]
        ELSE KeepText(kept[ix - 1].circle, kept[ix - 1].lextexts,
                      Back(circle_position, tokens_put_back - ix + 1), ix)
  IN kept[tokens_put_back]

release_token_texts ==
  /\ circle' = KeepTexts.circle
  /\ lextexts' = KeepTexts.lextexts
  /\ cur_lextexts' = tokens_put_back
  /\ held' = SubSeq(held, Len(held) - tokens_put_back + 1, Len(held))
  /\ UNCHANGED <<source, read, circle_position, tokens_put_back, buffers, table, taken, outer>>

(* An If... that fails inside a definition (get_next_token_with_directives) *)
(* skips text and releases token texts at each step of it; the definition   *)
(* goes on after Endif with what it had read before.                        *)
BeginSkip(inUse) ==
  /\ outer = <<>>
  /\ inUse => SkipsInDefinitions
  /\ tokens_put_back = 0
  /\ held # <<>>
  /\ outer' = IF inUse THEN held ELSE <<>>
  /\ held' = <<>>
  /\ cur_lextexts' = 0
  /\ UNCHANGED <<source, read, circle, circle_position, tokens_put_back, lextexts, buffers, table, taken>>

TokenInit ==
  /\ source \in Sources
  /\ read = 0
  /\ circle = [i \in 0..CircleSize - 1 |-> EmptyEntry]
  /\ circle_position = 0 /\ tokens_put_back = 0
  /\ lextexts = <<>> /\ cur_lextexts = 0 /\ buffers = <<>>
  /\ table = EmptyTable
  /\ taken = <<>> /\ held = <<>> /\ outer = <<>>

TokenNext ==
  \/ Len(table.sym) < MaxSymbols /\ \E context \in Contexts : get_next_token(context)
  \/ put_token_back
  \/ held # <<>> /\ release_token_texts
  \/ \E inUse \in BOOLEAN : BeginSkip(inUse)

TokenSpec == TokenInit /\ [][TokenNext]_tokenVars

------------------------------------------------------------------------------
(* Every text a parser may still use is the one its token was read with,    *)
(* also after later tokens went through the buffers and others were kept    *)
(* for being put back (lexer.c:1692).                                       *)
TextsIntact ==
  \A h \in {held[k] : k \in DOMAIN held} \cup {outer[k] : k \in DOMAIN outer} :
    buffers[h.text] = h.word

(* However often it was put back and in whatever contexts: the tokens taken *)
(* are the source's in order, and the last one is what its text means in    *)
(* the context it was asked for in, a symbol being one that the table still *)
(* finds under that name (lexer.c:599, "the same input text will always     *)
(* translate to the same output tokens whenever the context is the same").  *)
(* The texts it may still use are as they were.                             *)
TokensFaithful ==
  /\ TextsIntact
  /\ \A k \in DOMAIN taken :
       taken[k].word = IF k <= Len(source) THEN source[k] ELSE EndOfText
  /\ taken # <<>> =>
       LET last == taken[Len(taken)] IN
       last.type = IF last.word = EndOfText THEN "eof" ELSE IF last.word = 0 THEN "separator"
                   ELSE IF last.context \in Quoting THEN "unquoted"
                   ELSE IF last.word \in Keyword[last.context] THEN "keyword" ELSE "symbol"
  /\ \A k \in DOMAIN taken :
       taken[k].type = "symbol" =>
         /\ taken[k].value \in Hashed(table)
         /\ table.sym[taken[k].value].name = taken[k].word

(* Looking ahead leaves no trace in the symbol table: it holds the names of *)
(* the tokens taken as symbols, each in its list, and the lists are in      *)
(* order (symbols.c:331, lexer.c:1748).                                     *)
PeeksLeaveNoTrace ==
  /\ {table.sym[k].name : k \in Hashed(table)} =
       {taken[k].word : k \in {k \in DOMAIN taken : taken[k].type = "symbol"}}
  /\ \A k \in Hashed(table) : "discarded" \notin table.sym[k].flags
==============================================================================
