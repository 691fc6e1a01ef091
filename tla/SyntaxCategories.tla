-------------------------- MODULE SyntaxCategories --------------------------
(***************************************************************************)
(* What the syntax table promises the tokenizer, stated a category at a   *)
(* time: for each category, the set of bytes that bear it.  This is the    *)
(* specification of sections 4.1-4.4 of the design (the default vector,   *)
(* the attribute primitives, the changesyntax verbs and the delimiter      *)
(* installers) with the byte-level encoding of Syntax (one basis plus a    *)
(* mask set per byte) left out.  The derived flags, the delimiter strings  *)
(* and the quote age are not part of it: every step that changes only     *)
(* those is a stuttering step here.                                        *)
(*                                                                         *)
(* `call` is the request a step answers, chosen by the caller: a step     *)
(* moves the bearers exactly as that request says, so a change to a      *)
(* category the request does not name is not a step of this spec.       *)
(***************************************************************************)
EXTENDS Sequences

CONSTANTS
  Bytes,      \* the bytes whose categories are specified
  Default,    \* the default basis of every byte (the orig vector)
  DefRquote,  \* the byte that bears RQUOTE by default
  DefEcomm    \* the byte that bears ECOMM by default

VARIABLES
  bearers,  \* bearers[c]: the bytes that bear category c
  call      \* the request: [verb, code, chars, l, r]

Basis == {"IGNORE", "OTHER", "SPACE", "OPEN", "CLOSE", "COMMA", "DOLLAR",
          "LBRACE", "RBRACE", "ACTIVE", "ESCAPE", "ALPHA", "NUM", "LQUOTE",
          "BCOMM"}
Masks == {"RQUOTE", "ECOMM"}
Cats  == Basis \cup Masks

(* Every byte of S takes the basis F(ch); the masks are left alone. *)
Move(b, S, F(_)) ==
  [c \in Cats |-> IF c \in Masks THEN b[c]
                  ELSE (b[c] \ S) \cup {ch \in S : F(ch) = c}]

(* The default vector with RQUOTE on ' and ECOMM on newline (4.1). *)
DefaultBearers ==
  [c \in Cats |-> CASE c = "RQUOTE" -> {DefRquote}
                    [] c = "ECOMM"  -> {DefEcomm}
                    [] OTHER        -> {ch \in Bytes : Default[ch] = c}]

(* Each step relates the bearers B before it to the bearers B2 after it. *)

(* changesyntax with no key: back to the default vector. *)
Reinit(B2) == B2 = DefaultBearers

(* '+': a mask is ORed in; a basis replaces the old basis of CHARS. *)
Add(B, B2, code, chars) ==
  B2 = IF code \in Masks THEN [B EXCEPT ![code] = @ \cup chars]
       ELSE Move(B, chars, LAMBDA ch : code)

(* '-': a mask is cleared; bytes of CHARS with basis CODE become OTHER. *)
Subtract(B, B2, code, chars) ==
  B2 = IF code \in Masks THEN [B EXCEPT ![code] = @ \ chars]
       ELSE Move(B, B[code] \cap chars, LAMBDA ch : "OTHER")

(* '=': every bearer of CODE loses it, then CHARS gain it. *)
Set(B, B2, code, chars) ==
  B2 = IF code \in Masks THEN [B EXCEPT ![code] = chars]
       ELSE Move(Move(B, B[code], LAMBDA ch : "OTHER"), chars, LAMBDA ch : code)

(* Reset: the mask returns to its one default byte; a basis returns to   *)
(* its default bytes, and its other bearers to their own defaults.       *)
Reset(B, B2, code) ==
  B2 = CASE code = "RQUOTE" -> [B EXCEPT ![code] = {DefRquote}]
         [] code = "ECOMM"  -> [B EXCEPT ![code] = {DefEcomm}]
         [] OTHER -> Move(B, B[code] \cup {ch \in Bytes : Default[ch] = code},
                          LAMBDA ch : Default[ch])

(* An installer of the pair OPEN / CLOSE (4.4): the old bearers of OPEN   *)
(* go back to their default basis (OTHER where that default is OPEN      *)
(* itself) and CLOSE is cleared.  When the requested pair L / R is single *)
(* (one byte each, the left one bearing none of BLOCKERS) L takes OPEN    *)
(* and R alone takes CLOSE.                                               *)
Install(B, B2, open, close, blockers, l, r) ==
  LET Restored(ch) == IF Default[ch] = open THEN "OTHER" ELSE Default[ch]
      stripped == [Move(B, B[open], Restored) EXCEPT ![close] = {}]
      single == /\ Len(l) = 1 /\ Len(r) = 1
                /\ \A c \in blockers : l[1] \notin B[c]
  IN  B2 = IF single
           THEN [Move(stripped, {l[1]}, LAMBDA ch : open) EXCEPT ![close] = {r[1]}]
           ELSE stripped

Init == bearers = DefaultBearers

(* The step answers the request made with it. *)
Next ==
  LET B == bearers
      B2 == bearers'
      c == call'
  IN  CASE c.verb = "reinit" -> Reinit(B2)
        [] c.verb = "+"      -> Add(B, B2, c.code, c.chars)
        [] c.verb = "-"      -> Subtract(B, B2, c.code, c.chars)
        [] c.verb = "="      -> Set(B, B2, c.code, c.chars)
        [] c.verb = ""       -> Reset(B, B2, c.code)
        [] c.verb = "quote"  ->
             Install(B, B2, "LQUOTE", "RQUOTE", {"IGNORE", "ESCAPE", "ALPHA", "NUM"},
                     c.l, c.r)
        [] c.verb = "comm"   ->
             Install(B, B2, "BCOMM", "ECOMM",
                     {"IGNORE", "ESCAPE", "ALPHA", "NUM", "LQUOTE"}, c.l, c.r)

Spec == Init /\ [][Next]_bearers

=============================================================================
