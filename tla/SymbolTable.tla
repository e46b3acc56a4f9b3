----------------------------- MODULE SymbolTable -----------------------------
(***************************************************************************)
(* The symbol table of the compiler (symbols.c): an array of symbols, and   *)
(* for every hash code a list through next_entry in the order of the names. *)
(* symbol_index finds a name or makes it; end_symbol_scope takes a symbol   *)
(* out of its list, where the array keeps it for those that hold its index. *)
(*                                                                          *)
(* Names are numbers and strcmpcis their order.  A table is a record: head  *)
(* is start_of_list[] and sym the array symbols[]; 0 ends a list.           *)
(***************************************************************************)
EXTENDS Naturals, Sequences, FiniteSets

CONSTANT HashTabSize   \* HASH_TAB_SIZE

ASSUME HashAssumption == HashTabSize \in Nat \ {0}

hash_code_from_string(name) == name % HashTabSize

EmptyTable == [head |-> [h \in 0..HashTabSize - 1 |-> 0], sym |-> <<>>]

NewSymbol(name, next) ==
  [name |-> name, next |-> next, type |-> "constant", value |-> 256,
   flags |-> {"unknown"}, marker |-> "none"]

(* A turn of the loop of symbol_index along a list.  It comes to rest at    *)
(* the end of the list or at the first name that is not smaller.            *)
Turn(T, name, w) ==
  IF w.this = 0 \/ T.sym[w.this].name >= name THEN w
  ELSE [this |-> T.sym[w.this].next, last |-> w.this]

Walk(T, name) ==
  LET after[n \in 0..Len(T.sym)] ==
        IF n = 0 THEN [this |-> T.head[hash_code_from_string(name)], last |-> 0]
        ELSE Turn(T, name, after[n - 1])
  IN after[Len(T.sym)]

(* The place a name has in its list: the symbol itself or 0 and, for a new  *)
(* one, what it follows (0: the head) and what follows it.                  *)
Place(T, name) ==
  LET w == Walk(T, name) IN
  [found |-> IF w.this # 0 /\ T.sym[w.this].name = name THEN w.this ELSE 0,
   last |-> w.last, next |-> w.this]

get_symbol_index(T, name) == Place(T, name).found

(* Bug: a new symbol before the first greater name goes to the head.        *)
InsertBug(T, name, last, next) ==
  [head |-> [T.head EXCEPT ![hash_code_from_string(name)] = Len(T.sym) + 1],
   sym |-> Append(T.sym, NewSymbol(name, next))]

Insert(T, name, last, next) ==
  LET new == Len(T.sym) + 1 IN
  [head |-> IF last = 0 THEN [T.head EXCEPT ![hash_code_from_string(name)] = new] ELSE T.head,
   sym |-> Append(IF last = 0 THEN T.sym ELSE [T.sym EXCEPT ![last].next = new],
                  NewSymbol(name, next))]

symbol_index(T, name) ==
  LET p == Place(T, name) IN
  IF p.found # 0 THEN [table |-> T, index |-> p.found, created |-> FALSE]
  ELSE [table |-> Insert(T, name, p.last, p.next), index |-> Len(T.sym) + 1, created |-> TRUE]

(* The symbol is marked even where it stands in no list any more.           *)
end_symbol_scope(T, k, neveruse) ==
  LET h == hash_code_from_string(T.sym[k].name)
      marked == [T.sym EXCEPT ![k].flags = @ \cup {"unhashed"} \cup
                                           IF neveruse THEN {"discarded"} ELSE {}]
      before == {j \in DOMAIN T.sym : T.sym[j].next = k /\ "unhashed" \notin T.sym[j].flags}
  IN IF T.head[h] = k THEN [head |-> [T.head EXCEPT ![h] = T.sym[k].next], sym |-> marked]
     ELSE [T EXCEPT !.sym = [j \in DOMAIN marked |->
                               IF j \in before THEN [marked[j] EXCEPT !.next = T.sym[k].next]
                               ELSE marked[j]]]

Hashed(T) == {k \in DOMAIN T.sym : get_symbol_index(T, T.sym[k].name) = k}

assign_symbol(T, index, value, type) ==
  [T EXCEPT !.sym[index].value = value, !.sym[index].type = type, !.sym[index].marker = "none",
            !.sym[index].flags = @ \ {"unknown"}]
==============================================================================
