----------------------------- MODULE VeneerTexts -----------------------------
(***************************************************************************)
(* What the texts of the veneer routines (VRs_z, VRs_g) ask for, and what   *)
(* mark_as_needed_z and mark_as_needed_g say that they ask for.  A text     *)
(* uses another veneer routine in two ways: it mentions its name, which is  *)
(* an ordinary symbol, or it has a construct (a "." or a "print (name)")    *)
(* for which the compiler calls veneer_routine().  The constructs are those *)
(* compiled with strict mode, which adds checks of what is printed, or      *)
(* without; DEBUG and INFIX are not defined.                                *)
(***************************************************************************)
EXTENDS Sequences, TLC

RoutinesZ ==
  <<"Box__Routine", "R_Process", "DefArt", "InDefArt", "CDefArt", "CInDefArt", "PrintShortName",
    "EnglishNumber", "Print__PName", "WV__Pr", "RV__Pr", "CA__Pr", "IB__Pr", "IA__Pr", "DB__Pr",
    "DA__Pr", "RA__Pr", "RL__Pr", "RA__Sc", "OP__Pr", "OC__Cl", "Copy__Primitive", "RT__Err",
    "Z__Region", "Unsigned__Compare", "Meta__class", "CP__Tab", "Cl__Ms", "RT__ChT", "RT__ChR",
    "RT__ChG", "RT__ChGt", "RT__ChPS", "RT__ChPR", "RT__TrPS", "RT__ChLDB", "RT__ChLDW",
    "RT__ChSTB", "RT__ChSTW", "RT__ChPrintC", "RT__ChPrintA", "RT__ChPrintS", "RT__ChPrintO">>

RoutinesG == RoutinesZ \o <<"OB__Move", "OB__Remove", "Print__Addr", "Glk__Wrap", "Dynam__String">>

Routines(glulx) == IF glulx THEN RoutinesG ELSE RoutinesZ

\* A routine that a table does not list asks for nothing.
In(table, r) == IF r \in DOMAIN table THEN table[r] ELSE {}

Steps     == {"IB__Pr", "IA__Pr", "DB__Pr", "DA__Pr"}
Accesses  == {"RT__ChLDB", "RT__ChLDW", "RT__ChSTB", "RT__ChSTW"}
Printings == {"RT__ChPrintS", "RT__ChPrintO"}

------------------------------------------------------------------------------
(* The tables of mark_as_needed.                                            *)
MarksZ ==
  [r \in {"RV__Pr", "RA__Sc", "RT__ChR", "RT__ChT", "RT__ChG", "RT__ChGt", "RT__ChPR",
          "RT__ChPrintC"} |-> {"RT__Err"}]
  @@ [r \in Steps \cup {"WV__Pr", "RT__ChPS"} |-> {"RT__Err", "RT__TrPS"}]
  @@ [r \in Accesses \cup {"RT__ChPrintA"} |-> {"Unsigned__Compare", "RT__Err"}]
  @@ [r \in Printings \cup {"OC__Cl"} |-> {"Z__Region", "RT__Err"}]
  @@ [r \in {"OP__Pr", "Meta__class"} |-> {"Z__Region"}]
  @@ "CA__Pr" :> {"Z__Region", "Cl__Ms", "RT__Err"} @@ "RA__Pr" :> {"CP__Tab"}
  @@ "Z__Region" :> {"Unsigned__Compare"} @@ "Cl__Ms" :> {"RT__Err", "Copy__Primitive"}

MarksG ==
  [r \in {"RT__ChG", "RT__ChGt", "RT__ChPrintC", "Print__Addr", "Dynam__String"} |-> {"RT__Err"}]
  @@ [r \in Steps |-> {"RT__Err", "RT__TrPS"}]
  @@ [r \in Accesses |-> {"Unsigned__Compare", "RT__Err"}]
  @@ [r \in Printings |-> {"Z__Region", "RT__Err"}]
  @@ [r \in {"RA__Pr", "RL__Pr"} |-> {"OC__Cl", "CP__Tab"}]
  @@ [r \in {"CP__Tab", "Meta__class"} |-> {"Z__Region"}]
  @@ "PrintShortName" :> {"Meta__class"} @@ "Print__PName" :> {"PrintShortName"}
  @@ "WV__Pr" :> {"RA__Pr", "RT__TrPS", "RT__Err"} @@ "RV__Pr" :> {"RA__Pr", "RT__Err"}
  @@ "CA__Pr" :> {"RA__Pr", "RL__Pr", "PrintShortName", "Print__PName", "Z__Region", "Cl__Ms",
                  "Glk__Wrap", "RT__Err"}
  @@ "RA__Sc" :> {"OC__Cl", "RT__Err"} @@ "OP__Pr" :> {"RA__Pr", "Z__Region"}
  @@ "OC__Cl" :> {"RA__Pr", "RL__Pr", "Z__Region", "RT__Err"}
  @@ "Copy__Primitive" :> {"CP__Tab"} @@ "Z__Region" :> {"Unsigned__Compare"}
  @@ "Cl__Ms" :> {"OC__Cl", "OP__Pr", "RT__Err", "Copy__Primitive", "OB__Remove", "OB__Move"}
  @@ "RT__ChR" :> {"RT__Err", "Z__Region", "OB__Remove"}
  @@ "RT__ChT" :> {"RT__Err", "Z__Region", "OB__Move"}
  @@ "RT__ChPS" :> {"RT__Err", "RT__TrPS", "WV__Pr"} @@ "RT__ChPR" :> {"RT__Err", "RV__Pr"}
  @@ "RT__ChPrintA" :> {"Unsigned__Compare", "RT__Err", "Print__Addr"}

Marks(glulx, r) == In(IF glulx THEN MarksG ELSE MarksZ, r)

RECURSIVE From(_, _, _)
From(glulx, seen, new) ==
  IF new = {} THEN seen
  ELSE From(glulx, seen \cup new, UNION {Marks(glulx, r) : r \in new} \ (seen \cup new))

\* A routine, what it calls for, and what these do in turn.
Asked == [glulx \in BOOLEAN |->
            [r \in {Routines(glulx)[k] : k \in DOMAIN Routines(glulx)} |-> From(glulx, {}, {r})]]

------------------------------------------------------------------------------
(* The names in the texts.                                                  *)
MentionsZ ==
  [r \in {"RV__Pr", "RA__Sc", "RT__ChR", "RT__ChT", "RT__ChG", "RT__ChGt", "RT__ChPR",
          "RT__ChPrintC"} |-> {"RT__Err"}]
  @@ [r \in Steps \cup {"WV__Pr", "RT__ChPS"} |-> {"RT__Err", "RT__TrPS"}]
  @@ [r \in Accesses \cup {"RT__ChPrintA"} |-> {"Unsigned__Compare", "RT__Err"}]
  @@ [r \in Printings \cup {"OC__Cl"} |-> {"Z__Region", "RT__Err"}]
  @@ [r \in {"OP__Pr", "Meta__class"} |-> {"Z__Region"}]
  @@ "CA__Pr" :> {"Z__Region", "Cl__Ms", "RT__Err"} @@ "RA__Pr" :> {"CP__Tab"}
  @@ "Z__Region" :> {"Unsigned__Compare"} @@ "Cl__Ms" :> {"RT__Err", "Copy__Primitive"}

MentionsG ==
  [r \in {"WV__Pr", "RV__Pr", "RA__Sc", "RT__ChPrintC", "Dynam__String"} |-> {"RT__Err"}]
  @@ [r \in Steps |-> {"RT__Err", "RT__TrPS"}]
  @@ [r \in Accesses |-> {"Unsigned__Compare", "RT__Err"}]
  @@ [r \in Printings \cup {"OC__Cl", "CP__Tab", "RT__ChG", "RT__ChGt"} |-> {"Z__Region", "RT__Err"}]
  @@ [r \in {"RA__Pr", "RL__Pr", "Copy__Primitive"} |-> {"CP__Tab"}]
  @@ [r \in {"OP__Pr", "Meta__class"} |-> {"Z__Region"}]
  @@ "CA__Pr" :> {"Z__Region", "Cl__Ms", "RT__Err"}
  @@ "Cl__Ms" :> {"CA__Pr", "RT__Err", "Copy__Primitive"}
  @@ "RT__ChR" :> {"RT__Err", "Z__Region", "OB__Remove"}
  @@ "RT__ChT" :> {"RT__Err", "Z__Region", "OB__Move"}
  @@ "RT__ChPS" :> {"RT__Err", "RT__TrPS", "WV__Pr", "Z__Region"}
  @@ "RT__ChPR" :> {"RT__Err", "RV__Pr"}
  @@ "RT__ChPrintA" :> {"Unsigned__Compare", "RT__Err", "Print__Addr"}

Mentions(glulx, r) == In(IF glulx THEN MentionsG ELSE MentionsZ, r)

------------------------------------------------------------------------------
(* The constructs in the texts, by the routine that is called for each.     *)
Common ==
  [r \in Steps \cup {"OP__Pr", "WV__Pr"} |-> {"RA__Pr"}]
  @@ "RA__Pr" :> {"OC__Cl"} @@ "PrintShortName" :> {"Meta__class"}
  @@ "Print__PName" :> {"PrintShortName"} @@ "RT__TrPS" :> {"PrintShortName", "Print__PName"}
  @@ "RT__Err" :> {"PrintShortName", "Print__PName"}

ConstructsZ ==
  "RV__Pr" :> {"RA__Pr", "RL__Pr"} @@ "RL__Pr" :> {"RA__Pr"} @@ "RA__Sc" :> {"OC__Cl"}
  @@ "CA__Pr" :> {"PrintShortName", "Print__PName", "RA__Pr"}
  @@ "Cl__Ms" :> {"CA__Pr", "OC__Cl", "OP__Pr"}
  @@ Common

ConstructsG ==
  "RV__Pr" :> {"RA__Pr"} @@ "RL__Pr" :> {"OC__Cl"} @@ "OC__Cl" :> {"RA__Pr", "RL__Pr"}
  @@ "CA__Pr" :> {"Glk__Wrap", "RA__Pr", "RL__Pr"} @@ "Box__Routine" :> {"Glk__Wrap"}
  @@ "Cl__Ms" :> {"CA__Pr", "OB__Move", "OB__Remove", "OC__Cl", "OP__Pr"}
  @@ Common

\* What strict mode adds.
Checks ==
  [r \in {"Box__Routine", "Print__PName"} |-> {"RT__ChPrintS"}]
  @@ [r \in {"RT__ChG", "RT__ChGt"} |-> {"RT__Err"}]
ChecksZ ==
  Checks @@ [r \in {"CA__Pr", "RT__Err"} |-> {"RT__ChPrintS"}]
         @@ "Copy__Primitive" :> {"RT__ChG", "RT__ChGt", "RT__Err"}
ChecksG ==
  Checks @@ "RT__Err" :> {"RT__ChPrintO", "RT__ChPrintS"} @@ "Print__Addr" :> {"RT__ChPrintC"}

Constructs(glulx, strict, r) ==
  IF glulx THEN In(ConstructsG, r) \cup (IF strict THEN In(ChecksG, r) ELSE {})
           ELSE In(ConstructsZ, r) \cup (IF strict THEN In(ChecksZ, r) ELSE {})

------------------------------------------------------------------------------
(* The routines that the code of a program may call by veneer_routine().    *)
Internal == {"CP__Tab", "Cl__Ms", "Copy__Primitive", "Z__Region", "Unsigned__Compare", "RT__TrPS"}
Checking == Accesses \cup Printings \cup
  {"RT__ChT", "RT__ChR", "RT__ChG", "RT__ChGt", "RT__ChPS", "RT__ChPR", "RT__ChPrintC", "RT__ChPrintA"}

Callable(glulx, strict) ==
  {Routines(glulx)[k] : k \in DOMAIN Routines(glulx)}
    \ (Internal \cup (IF glulx THEN {"RT__ChPR"} ELSE {}) \cup (IF strict THEN {} ELSE Checking))
==============================================================================
