------------------------------- MODULE Syntax -------------------------------
(***************************************************************************)
(* The syntax table of GNU m4 (src/m4/syntax.c).                           *)
(*                                                                         *)
(* The state is one record, `syntax`, with the fields of the C struct      *)
(* m4_syntax_table that syntax.c reads or writes.  Every exported function *)
(* that changes the table is one action; the static helpers it calls       *)
(* (add/subtract/set/reset_syntax_set, the check_* functions,              *)
(* set_quote_age) are pure operators from a table record to a table        *)
(* record, composed in the order the C code calls them.                    *)
(*                                                                         *)
(* Bytes are the integer values of the modelled characters; a C string is *)
(* a sequence of bytes (its NUL terminator left implicit).                 *)
(***************************************************************************)
EXTENDS Integers, Sequences, FiniteSets, TLC

CONSTANTS
  Bytes,     \* the characters whose syntax is modelled (a subset of 1..255)
  Keys,      \* the key characters offered to changesyntax
  CharSets,  \* the sets of characters offered as the CHARS of changesyntax
  QuotePairs,    \* the argument pairs offered to changequote
  CommentPairs,  \* the argument pairs offered to changecom
  AgeMax,    \* the saturation value of syntax_age (0xffff in the code)
  Refreshing, \* whether the caller of m4__quote_cache keeps results to refresh
  NULL       \* an absent argument / a NULL pointer

(* The default delimiters (DEF_LQUOTE ... DEF_ECOMM of m4private.h). *)
DEF_LQUOTE == <<96>>   \* `
DEF_RQUOTE == <<39>>   \* '
DEF_BCOMM  == <<35>>   \* #
DEF_ECOMM  == <<10>>   \* newline
COMMA_CHAR == 44       \* ,

ASSUME
  /\ Bytes \subseteq 1..255
  /\ {96, 39, 35, 10, COMMA_CHAR} \subseteq Bytes
  /\ \A cs \in CharSets : cs \subseteq Bytes
  /\ \A p \in QuotePairs \cup CommentPairs :
        \A i \in 1..2 : p[i] = NULL \/ p[i] \in Seq(Bytes)
  /\ AgeMax \in Nat \ {0}
  /\ Refreshing \in BOOLEAN

(***************************************************************************)
(* Syntax categories (M4_SYNTAX_* of m4module.h).  A table entry is one    *)
(* basis category plus a set of mask categories.                          *)
(***************************************************************************)
Basis == {"IGNORE", "OTHER", "SPACE", "OPEN", "CLOSE", "COMMA", "DOLLAR",
          "LBRACE", "RBRACE", "ACTIVE", "ESCAPE", "ALPHA", "NUM", "LQUOTE",
          "BCOMM"}
Masks == {"RQUOTE", "ECOMM"}
Entry == [basis : Basis, masks : SUBSET Masks]
Str   == Seq(Bytes)
Pair  == [str1 : Str, str2 : Str]

(* m4_syntax_code: the key character naming a category; "NONE" is -1. *)
KeyCode ==
  [k \in {"I", "i"} |-> "IGNORE"] @@ ("@" :> "ESCAPE")
  @@ [k \in {"W", "w"} |-> "ALPHA"] @@ [k \in {"L", "l"} |-> "LQUOTE"]
  @@ [k \in {"B", "b"} |-> "BCOMM"] @@ [k \in {"O", "o"} |-> "OTHER"]
  @@ [k \in {"D", "d"} |-> "NUM"] @@ ("$" :> "DOLLAR") @@ ("{" :> "LBRACE")
  @@ ("}" :> "RBRACE") @@ [k \in {"S", "s"} |-> "SPACE"]
  @@ [k \in {"A", "a"} |-> "ACTIVE"] @@ ("(" :> "OPEN") @@ (")" :> "CLOSE")
  @@ ("," :> "COMMA") @@ [k \in {"R", "r"} |-> "RQUOTE"]
  @@ [k \in {"E", "e"} |-> "ECOMM"]
NoCode == "NONE"
m4_syntax_code(ch) == IF ch \in DOMAIN KeyCode THEN KeyCode[ch] ELSE NoCode

(***************************************************************************)
(* The default table built by m4_syntax_create (C locale ctype).          *)
(***************************************************************************)
OrigSpecial ==
  (40 :> "OPEN") @@ (41 :> "CLOSE") @@ (44 :> "COMMA") @@ (36 :> "DOLLAR")
  @@ (123 :> "LBRACE") @@ (125 :> "RBRACE") @@ (96 :> "LQUOTE")
  @@ (35 :> "BCOMM")
IsSpace(ch) == ch \in {9, 10, 11, 12, 13, 32}
IsAlpha(ch) == ch \in (65..90) \cup (97..122)
IsDigit(ch) == ch \in 48..57
Orig(ch) ==
  IF ch \in DOMAIN OrigSpecial THEN OrigSpecial[ch]
  ELSE CASE IsSpace(ch)              -> "SPACE"
         [] IsAlpha(ch) \/ ch = 95   -> "ALPHA"
         [] IsDigit(ch)              -> "NUM"
         [] OTHER                    -> "OTHER"

(* m4_has_syntax: does entry E carry any of the categories in T? *)
Has(e, T) == e.basis \in T \/ e.masks \cap T # {}
HasSyntax(s, ch, T) == Has(s.table[ch], T)
Bearers(t, code) == {ch \in Bytes : Has(t[ch], {code})}

(* add_syntax_attribute / remove_syntax_attribute on one entry. *)
WithAttr(e, code) ==
  IF code \in Masks THEN [e EXCEPT !.masks = @ \cup {code}]
                    ELSE [e EXCEPT !.basis = code]
WithoutAttr(e, code) == [e EXCEPT !.masks = @ \ {code}]
AddAttr(t, ch, code) == [t EXCEPT ![ch] = WithAttr(@, code)]

(***************************************************************************)
(* The checkers of the derived booleans.                                   *)
(***************************************************************************)
(* check_is_macro_escaped: rescan the table for an ESCAPE character. *)
CheckIsMacroEscaped(s) ==
  [s EXCEPT !.is_macro_escaped = \E ch \in Bytes : HasSyntax(s, ch, {"ESCAPE"})]

(* Mutant of CheckIsSingle: the unique bearers are found but the stored   *)
(* delimiter bytes are not rewritten to them.                               *)
CheckIsSingleNoAdopt(s, flag, delims, open, close) ==
  CASE ~s[flag] -> s
    [] HasSyntax(s, s[delims].str1[1], {open})
       /\ HasSyntax(s, s[delims].str2[1], {close}) -> s
    [] Cardinality(Bearers(s.table, open)) = 1
       /\ Cardinality(Bearers(s.table, close)) = 1 -> s
    [] OTHER -> [s EXCEPT ![flag] = FALSE]

(* check_is_single_quotes, written over the field names so that            *)
(* check_is_single_comments is the same operator: a no-op when the flag is  *)
(* off or the stored delimiters still carry their categories; otherwise    *)
(* adopt the unique bearers of both categories, or turn the flag off.      *)
CheckIsSingle(s, flag, delims, open, close) ==
  LET L == Bearers(s.table, open)
      R == Bearers(s.table, close)
  IN  CASE ~s[flag] -> s
        [] HasSyntax(s, s[delims].str1[1], {open})
           /\ HasSyntax(s, s[delims].str2[1], {close}) -> s
        [] Cardinality(L) = 1 /\ Cardinality(R) = 1 ->
             [s EXCEPT ![delims] = [str1 |-> <<CHOOSE ch \in L : TRUE>>,
                                    str2 |-> <<CHOOSE ch \in R : TRUE>>]]
        [] OTHER -> [s EXCEPT ![flag] = FALSE]

CheckIsSingleQuotes(s) ==
  CheckIsSingle(s, "is_single_quotes", "quote", "LQUOTE", "RQUOTE")
CheckIsSingleComments(s) ==
  CheckIsSingle(s, "is_single_comments", "comm", "BCOMM", "ECOMM")
CheckAll(s) == CheckIsSingleComments(CheckIsSingleQuotes(CheckIsMacroEscaped(s)))

(***************************************************************************)
(* The four verbs of changesyntax on a set of characters CHARS.  A C       *)
(* string is walked character by character, and every per-character step  *)
(* is idempotent and independent of the others, so the set is enough.     *)
(***************************************************************************)
(* add_syntax_set *)
AddSyntaxSet(s, chars, code) ==
  IF chars = {} THEN s
  ELSE [s EXCEPT !.is_macro_escaped = @ \/ code = "ESCAPE",
                 !.table = [ch \in Bytes |->
                              IF ch \in chars THEN WithAttr(@[ch], code)
                                              ELSE @[ch]]]

(* subtract_syntax_set, with its cleanup switch *)
SubtractCleanup(s, code) ==
  CASE code = "ESCAPE" /\ s.is_macro_escaped -> CheckIsMacroEscaped(s)
    [] code \in {"LQUOTE", "RQUOTE"}         -> CheckIsSingleQuotes(s)
    [] code \in {"BCOMM", "ECOMM"}           -> CheckIsSingleComments(s)
    [] OTHER                                 -> s
(* Mutant of Subtracted: the test that the byte bears the basis CODE is   *)
(* dropped, so '-' of a basis makes every named byte OTHER.               *)
SubtractedAnyBasis(e, code) ==
  IF code \in Masks THEN WithoutAttr(e, code) ELSE WithAttr(e, "OTHER")
Subtracted(e, code) ==
  CASE code \in Masks     -> WithoutAttr(e, code)
    [] Has(e, {code})     -> WithAttr(e, "OTHER")
    [] OTHER              -> e
SubtractSyntaxSet(s, chars, code) ==
  IF chars = {} THEN s
  ELSE SubtractCleanup(
         [s EXCEPT !.table = [ch \in Bytes |->
                                IF ch \in chars THEN Subtracted(@[ch], code)
                                                ELSE @[ch]]], code)

(* set_syntax_set: every holder of CODE loses it, then CHARS get it. *)
SetSyntaxSet(s, chars, code) ==
  CheckAll([s EXCEPT !.table = [ch \in Bytes |->
                                  IF ch \in chars
                                  THEN WithAttr(Subtracted(@[ch], code), code)
                                  ELSE Subtracted(@[ch], code)]])

(* Mutant of ResetEntry: only the default holders of a basis CODE are    *)
(* reset; its other current bearers keep it.                              *)
ResetEntryDefaultOnly(e, ch, code) ==
  CASE code = "RQUOTE" -> IF ch = DEF_RQUOTE[1] THEN WithAttr(e, code)
                                                ELSE WithoutAttr(e, code)
    [] code = "ECOMM"  -> IF ch = DEF_ECOMM[1] THEN WithAttr(e, code)
                                               ELSE WithoutAttr(e, code)
    [] Orig(ch) = code -> WithAttr(e, Orig(ch))
    [] OTHER -> e

(* reset_syntax_set: CODE returns to exactly its default holders. *)
ResetEntry(e, ch, code) ==
  CASE code = "RQUOTE" -> IF ch = DEF_RQUOTE[1] THEN WithAttr(e, code)
                                                ELSE WithoutAttr(e, code)
    [] code = "ECOMM"  -> IF ch = DEF_ECOMM[1] THEN WithAttr(e, code)
                                               ELSE WithoutAttr(e, code)
    [] Orig(ch) = code \/ Has(e, {code}) -> WithAttr(e, Orig(ch))
    [] OTHER -> e
ResetSyntaxSet(s, code) ==
  CheckAll([s EXCEPT !.table = [ch \in Bytes |-> ResetEntry(@[ch], ch, code)]])

(***************************************************************************)
(* set_quote_age: the quote age is non-zero only when the single quote     *)
(* pair is safe for $@ expansion; its upper half is the syntax age.        *)
(***************************************************************************)
UnsafeQuoteCats == {"ALPHA", "NUM", "OPEN", "COMMA", "CLOSE", "SPACE"}

(* The unsigned 32-bit quote_age, kept as its two 16-bit halves: hi is     *)
(* local_syntax_age << 16, lo is the two quote bytes, each & 0xff, the   *)
(* left one shifted by 8.                                                  *)
(* The zero age is NoAge.  TLC's integers are 32-bit signed, so the        *)
(* halves are not added together.                                          *)
QuoteAge(hi, lo) == [hi |-> hi, lo |-> lo]
NoAge == QuoteAge(0, 0)

(* The tests of set_quote_age other than the saturation of the age: one- *)
(* character quotes outside the unsafe categories, distinct, not the end *)
(* of a comment and no comment start that splits arguments, and a comma  *)
(* that is still COMMA.                                                   *)
QuotesSafe(s) ==
  LET lq == s.quote.str1[1]
      rq == s.quote.str2[1]
  IN  /\ s.is_single_quotes
      /\ ~HasSyntax(s, lq, UnsafeQuoteCats)
      /\ ~HasSyntax(s, rq, UnsafeQuoteCats)
      /\ lq # rq
      /\ \/ Len(s.comm.str1) = 0
         \/ /\ s.comm.str1[1] # rq
            /\ ~HasSyntax(s, s.comm.str1[1], {"OPEN", "COMMA", "CLOSE"})
      /\ HasSyntax(s, COMMA_CHAR, {"COMMA"})
PackAge(s, local) == QuoteAge(local, s.quote.str1[1] * 2^8 + s.quote.str2[1])

(* Mutant of QuoteAgeFor: the saturation test is "<= 0xffff", so a       *)
(* saturated syntax age still yields a non-zero quote age.               *)
QuoteAgeForSaturatedSafe(s, local) ==
  IF local <= AgeMax /\ QuotesSafe(s) THEN PackAge(s, local) ELSE NoAge

(* The quote age set_quote_age computes for a given syntax age. *)
QuoteAgeFor(s, local) ==
  IF local < AgeMax /\ QuotesSafe(s) THEN PackAge(s, local) ELSE NoAge

(* Mutant of SetQuoteAge: the counter is incremented without saturating. *)
SetQuoteAgeUnsaturated(s, reset, change) ==
  LET local == CASE reset -> 0 [] change -> s.syntax_age + 1 [] OTHER -> s.syntax_age
  IN  [s EXCEPT !.syntax_age = IF reset THEN @ ELSE local,
                !.quote_age = QuoteAgeFor(s, local)]

SetQuoteAge(s, reset, change) ==
  LET local == CASE reset                            -> 0
                 [] change /\ s.syntax_age < AgeMax  -> s.syntax_age + 1
                 [] OTHER                            -> s.syntax_age
  IN  [s EXCEPT !.syntax_age = IF reset THEN @ ELSE local,
                !.quote_age = QuoteAgeFor(s, local)]

(***************************************************************************)
(* m4_set_quotes and m4_set_comment.                                       *)
(***************************************************************************)
(* The argument defaulting of m4_set_quotes. *)
QuoteArgs(lq, rq) ==
  CASE lq = NULL                           -> <<DEF_LQUOTE, DEF_RQUOTE>>
    [] rq = NULL \/ (lq # <<>> /\ rq = <<>>) -> <<lq, DEF_RQUOTE>>
    [] OTHER                               -> <<lq, rq>>

(* The argument defaulting of m4_set_comment. *)
CommentArgs(bc, ec) ==
  CASE bc = NULL                           -> <<<<>>, <<>>>>
    [] ec = NULL \/ (bc # <<>> /\ ec = <<>>) -> <<bc, DEF_ECOMM>>
    [] OTHER                               -> <<bc, ec>>

(* The body shared by both installers once the new pair differs from the *)
(* old one, given the single flag decided against the table as it was:  *)
(* strip the open category (back to the default, or OTHER where the     *)
(* default is the open category itself) and the close mask from every   *)
(* character, install both on the new delimiters when single, recheck   *)
(* the escape flag, and recompute the quote age without counting a      *)
(* syntax change.                                                        *)
InstallWith(s, flag, delims, open, close, l, r, single) ==
  LET Strip(e, ch) ==
        WithoutAttr(IF Has(e, {open})
                    THEN WithAttr(e, IF Orig(ch) = open THEN "OTHER" ELSE Orig(ch))
                    ELSE e, close)
      stripped == [ch \in Bytes |-> Strip(s.table[ch], ch)]
      installed == IF single
                   THEN AddAttr(AddAttr(stripped, l[1], open), r[1], close)
                   ELSE stripped
      s1 == [s EXCEPT ![delims] = [str1 |-> l, str2 |-> r],
                      ![flag] = single,
                      !.table = installed]
  IN  SetQuoteAge(IF s1.is_macro_escaped THEN CheckIsMacroEscaped(s1) ELSE s1,
                  FALSE, FALSE)

(* Mutants of Install: the single flag ignores the length of the left,    *)
(* or of the right, delimiter.                                             *)
InstallNoLeftLength(s, flag, delims, open, close, blockers, l, r) ==
  InstallWith(s, flag, delims, open, close, l, r,
              Len(l) >= 1 /\ Len(r) = 1 /\ ~HasSyntax(s, l[1], blockers))
InstallNoRightLength(s, flag, delims, open, close, blockers, l, r) ==
  InstallWith(s, flag, delims, open, close, l, r,
              Len(l) = 1 /\ Len(r) >= 1 /\ ~HasSyntax(s, l[1], blockers))

(* The single flag of both installers: both delimiters one character, and *)
(* the open one not already in a category that takes precedence over it. *)
Install(s, flag, delims, open, close, blockers, l, r) ==
  InstallWith(s, flag, delims, open, close, l, r,
              Len(l) = 1 /\ Len(r) = 1 /\ ~HasSyntax(s, l[1], blockers))

SetQuotes(s, l, r) ==
  Install(s, "is_single_quotes", "quote", "LQUOTE", "RQUOTE",
          {"IGNORE", "ESCAPE", "ALPHA", "NUM"}, l, r)
(* Mutant of SetComment: set_quote_age is not called at the end. *)
SetCommentKeepAge(s, l, r) ==
  LET s1 == Install(s, "is_single_comments", "comm", "BCOMM", "ECOMM",
                    {"IGNORE", "ESCAPE", "ALPHA", "NUM", "LQUOTE"}, l, r)
  IN  [s1 EXCEPT !.syntax_age = s.syntax_age, !.quote_age = s.quote_age]

SetComment(s, l, r) ==
  Install(s, "is_single_comments", "comm", "BCOMM", "ECOMM",
          {"IGNORE", "ESCAPE", "ALPHA", "NUM", "LQUOTE"}, l, r)

(***************************************************************************)
(* The state and its transitions.                                          *)
(***************************************************************************)
(* `view`, `checked` and `call` are auxiliary: they observe the program   *)
(* and never feed back into `syntax`.  `held` is the caller of m4__quote_cache (the *)
(* macro expander) keeping one result across other calls to refresh it.  *)
VARIABLES
  syntax,   \* the m4_syntax_table
  view,     \* the pair behind the last pointer m4__quote_cache handed out,
            \* NULL once a call that mutates the table has invalidated it
  checked,  \* the derived flags whose checker the last call ran
  held,     \* NULL, or the age, pointer and pair of a result kept for refresh
  call      \* the request the last table operation received

vars == <<syntax, view, checked, held, call>>

(* A request: the changesyntax verb ("" for a reset, "reinit" for the    *)
(* full reset) with its category and characters, or "quote" / "comm"     *)
(* with the defaulted delimiter pair.                                    *)
Call(verb, code, chars, l, r) ==
  [verb |-> verb, code |-> code, chars |-> chars, l |-> l, r |-> r]

(* m4_set_syntax with key '\0': restore the default table and delimiters. *)
DefaultSyntax(s) ==
  LET t == [ch \in Bytes |-> [basis |-> Orig(ch), masks |-> {}]]
  IN  SetQuoteAge(
        [s EXCEPT !.table = AddAttr(AddAttr(t, DEF_RQUOTE[1], "RQUOTE"),
                                    DEF_ECOMM[1], "ECOMM"),
                  !.quote = [str1 |-> DEF_LQUOTE, str2 |-> DEF_RQUOTE],
                  !.comm  = [str1 |-> DEF_BCOMM, str2 |-> DEF_ECOMM],
                  !.is_single_quotes = TRUE,
                  !.is_single_comments = TRUE,
                  !.is_macro_escaped = FALSE], TRUE, FALSE)

(* m4_syntax_create: a zeroed struct, then m4_set_syntax(syntax, 0, 0, 0). *)
InitSyntax ==
  DefaultSyntax([table |-> [ch \in Bytes |-> [basis |-> "OTHER", masks |-> {}]],
                 quote |-> [str1 |-> <<>>, str2 |-> <<>>],
                 comm |-> [str1 |-> <<>>, str2 |-> <<>>],
                 is_single_quotes |-> FALSE,
                 is_single_comments |-> FALSE,
                 is_macro_escaped |-> FALSE,
                 syntax_age |-> 0, quote_age |-> NoAge,
                 cached_quote |-> NULL,
                 cached_simple |-> [str1 |-> <<0>>, str2 |-> <<0>>]])

Init ==
  /\ syntax = InitSyntax
  /\ view = NULL
  /\ checked = {}
  /\ held = NULL
  /\ call = Call("reinit", NoCode, {}, <<>>, <<>>)

(* changesyntax with no key: m4_set_syntax(syntax, '\0', ...). *)
RestoreDefaultSyntax ==
  /\ syntax' = DefaultSyntax(syntax)
  /\ view' = NULL
  /\ checked' = {}
  /\ call' = Call("reinit", NoCode, {}, <<>>, <<>>)
  /\ UNCHANGED held

(* The checkers a changesyntax verb runs (syntax.c:284-306, 326-329,      *)
(* 358-360), and the one an installer runs (syntax.c:618-619, 680-681).     *)
CheckersRun(action, code, chars) ==
  CASE action \in {"=", ""} -> {"escape", "quotes", "comments"}
    [] action = "-" /\ chars # {} /\ code = "ESCAPE" /\ syntax.is_macro_escaped
         -> {"escape"}
    [] action = "-" /\ chars # {} /\ code \in {"LQUOTE", "RQUOTE"} -> {"quotes"}
    [] action = "-" /\ chars # {} /\ code \in {"BCOMM", "ECOMM"} -> {"comments"}
    [] OTHER -> {}
EscapeRecheck == IF syntax.is_macro_escaped THEN {"escape"} ELSE {}

(* m4_set_syntax with a key: the verb, the syntax-age bump, the uncache.  *)
(* An unknown key returns -1 with no effect (no step).                    *)
Verb(s, action, chars, code) ==
  CASE action = "+" -> AddSyntaxSet(s, chars, code)
    [] action = "-" -> SubtractSyntaxSet(s, chars, code)
    [] action = "=" -> SetSyntaxSet(s, chars, code)
    [] action = ""  -> ResetSyntaxSet(s, code)
ChangeSyntax(key, action, chars) ==
  LET code == m4_syntax_code(key)
  IN  /\ code # NoCode
      /\ syntax' = [SetQuoteAge(Verb(syntax, action, chars, code), FALSE, TRUE)
                      EXCEPT !.cached_quote = NULL]
      /\ view' = NULL
      /\ checked' = CheckersRun(action, code, chars)
      /\ call' = Call(action, code, chars, <<>>, <<>>)
      /\ UNCHANGED held

(* The early return of both installers: the defaulted pair equals the    *)
(* stored strings, and the call returns having changed nothing and run    *)
(* no checker.                                                            *)
Unchanged == /\ checked' = {}
             /\ UNCHANGED <<syntax, view, held>>

(* m4_set_quotes: a no-op when the defaulted pair equals the current one. *)
ChangeQuote(lq, rq) ==
  LET a == QuoteArgs(lq, rq)
  IN  /\ call' = Call("quote", NoCode, {}, a[1], a[2])
      /\ IF a = <<syntax.quote.str1, syntax.quote.str2>>
         THEN Unchanged
         ELSE /\ syntax' = SetQuotes(syntax, a[1], a[2])
              /\ view' = NULL
              /\ checked' = EscapeRecheck
              /\ UNCHANGED held

(* m4_set_comment: likewise. *)
ChangeCom(bc, ec) ==
  LET a == CommentArgs(bc, ec)
  IN  /\ call' = Call("comm", NoCode, {}, a[1], a[2])
      /\ IF a = <<syntax.comm.str1, syntax.comm.str2>>
         THEN Unchanged
         ELSE /\ syntax' = SetComment(syntax, a[1], a[2])
              /\ view' = NULL
              /\ checked' = EscapeRecheck
              /\ UNCHANGED held

(* m4__quote_cache(syntax, obs, age, quotes) as a function of the table:  *)
(* the table after the call and the pointer returned.  A pointer is NULL, *)
(* SimplePtr (&syntax->cached_simple, whose two static bytes every call  *)
(* with a non-zero age rewrites), QuotePtr (&syntax->quote), or Copy(p): *)
(* an obstack copy of the pair p, whose contents never change.           *)
SimplePtr == <<"simple">>
QuotePtr  == <<"quote">>
Copy(p)   == <<"copy", p>>
Deref(s, ptr) == CASE ptr = SimplePtr -> s.cached_simple
                   [] ptr = QuotePtr  -> s.quote
                   [] OTHER           -> ptr[2]
DecodeAge(age) == [str1 |-> <<age.lo \div 2^8>>, str2 |-> <<age.lo % 2^8>>]

(* Mutant of QuoteCacheCall: the obs test is made before the age test, so *)
(* a refresh hands back the static pair without rewriting it.             *)
QuoteCacheCallObsFirst(s, obs, age, quotes) ==
  CASE quotes = NULL -> [s |-> s, ptr |-> NULL]
    [] ~obs -> [s |-> s, ptr |-> quotes]
    [] age # NoAge -> [s |-> [s EXCEPT !.cached_simple = DecodeAge(age)], ptr |-> SimplePtr]
    [] s.cached_quote = NULL ->
         [s |-> [s EXCEPT !.cached_quote = Deref(s, quotes)], ptr |-> Copy(Deref(s, quotes))]
    [] OTHER -> [s |-> s, ptr |-> Copy(s.cached_quote)]

QuoteCacheCall(s, obs, age, quotes) ==
  CASE quotes = NULL -> [s |-> s, ptr |-> NULL]
    [] age # NoAge -> [s |-> [s EXCEPT !.cached_simple = DecodeAge(age)], ptr |-> SimplePtr]
    [] ~obs -> [s |-> s, ptr |-> quotes]
    [] s.cached_quote = NULL ->
         [s |-> [s EXCEPT !.cached_quote = Deref(s, quotes)], ptr |-> Copy(Deref(s, quotes))]
    [] OTHER -> [s |-> s, ptr |-> Copy(s.cached_quote)]

(* The expander's call with an obstack: m4__quote_cache(syntax, obs,      *)
(* m4_quote_age, quotes), where quotes is m4_get_syntax_quotes, or NULL   *)
(* when the expansion is not to be quoted.  When nothing is held, the    *)
(* caller may keep a result, with the age it passed, to refresh it later. *)
QuoteCache(quotes) ==
  LET age == syntax.quote_age
      r == QuoteCacheCall(syntax, TRUE, age, quotes)
  IN  /\ syntax' = r.s
      /\ view' = IF r.ptr = NULL THEN NULL ELSE Deref(r.s, r.ptr)
      /\ checked' = {}
      /\ \/ UNCHANGED held
         \/ /\ Refreshing /\ held = NULL /\ r.ptr # NULL
            /\ held' = [age |-> age, ptr |-> r.ptr, got |-> Deref(r.s, r.ptr)]
      /\ UNCHANGED call

(* The refresh: m4__quote_cache(syntax, NULL, age, quotes) with the age    *)
(* and the pointer of the held result; the caller then uses and drops it. *)
RefreshQuoteCache ==
  /\ held # NULL
  /\ syntax' = QuoteCacheCall(syntax, FALSE, held.age, held.ptr).s
  /\ held' = NULL
  /\ UNCHANGED <<view, checked, call>>

Next ==
  \/ RestoreDefaultSyntax
  \/ \E key \in Keys, action \in {"+", "-", "="}, chars \in CharSets :
       ChangeSyntax(key, action, chars)
  \/ \E key \in Keys : ChangeSyntax(key, "", {})
  \/ \E p \in QuotePairs : ChangeQuote(p[1], p[2])
  \/ \E p \in CommentPairs : ChangeCom(p[1], p[2])
  \/ \E quotes \in {QuotePtr, NULL} : QuoteCache(quotes)
  \/ RefreshQuoteCache

Spec == Init /\ [][Next]_vars

(***************************************************************************)
(* The accessors the tokenizer and the expander read the table through.   *)
(***************************************************************************)
m4_get_syntax_quotes(s)         == s.quote
m4_get_syntax_comments(s)       == s.comm
m4_is_syntax_single_quotes(s)   == s.is_single_quotes
m4_is_syntax_single_comments(s) == s.is_single_comments
m4_is_syntax_macro_escaped(s)   == s.is_macro_escaped

(***************************************************************************)
(* Properties.                                                             *)
(***************************************************************************)
TypeOK ==
  /\ syntax \in [table : [Bytes -> Entry], quote : Pair, comm : Pair,
                 is_single_quotes : BOOLEAN, is_single_comments : BOOLEAN,
                 is_macro_escaped : BOOLEAN, syntax_age : 0..AgeMax,
                 quote_age : [hi : 0..AgeMax, lo : 0..(2^16 - 1)], cached_quote : Pair \cup {NULL},
                 cached_simple : [str1 : Seq(Bytes \cup {0}), str2 : Seq(Bytes \cup {0})]]
  /\ view \in Pair \cup {NULL}
  /\ checked \subseteq {"escape", "quotes", "comments"}
  /\ held # NULL =>
       /\ DOMAIN held = {"age", "ptr", "got"}
       /\ held.age \in [hi : 0..AgeMax, lo : 0..(2^16 - 1)] /\ held.got \in Pair
       /\ held.ptr = SimplePtr \/ held.ptr = Copy(held.got)

(* I2: while single quotes are claimed, the stored delimiters are one      *)
(* character each and carry LQUOTE / RQUOTE in the table, i.e. the        *)
(* tokenizer really sees the quotes m4_get_syntax_quotes reports.          *)
SingleQuotesSound ==
  LET q == m4_get_syntax_quotes(syntax) IN
  m4_is_syntax_single_quotes(syntax) =>
    /\ Len(q.str1) = 1 /\ Len(q.str2) = 1
    /\ HasSyntax(syntax, q.str1[1], {"LQUOTE"})
    /\ HasSyntax(syntax, q.str2[1], {"RQUOTE"})

(* I3: the same for the single-character comment delimiters. *)
SingleCommentsSound ==
  LET c == m4_get_syntax_comments(syntax) IN
  m4_is_syntax_single_comments(syntax) =>
    /\ Len(c.str1) = 1 /\ Len(c.str2) = 1
    /\ HasSyntax(syntax, c.str1[1], {"BCOMM"})
    /\ HasSyntax(syntax, c.str2[1], {"ECOMM"})

(* I4 / P4: is_macro_escaped holds exactly when some character is ESCAPE, *)
(* so the tokenizer's decision to require an escape before macro names    *)
(* matches the table.                                                      *)
MacroEscapedExact ==
  m4_is_syntax_macro_escaped(syntax) <=> \E ch \in Bytes : HasSyntax(syntax, ch, {"ESCAPE"})

(* The assertions of check_is_single_quotes and check_is_single_comments   *)
(* (syntax.c:440, 493): a single-delimiter flag is only ever on while both *)
(* stored delimiters are one character long; the checkers abort otherwise. *)
SingleFlagsHaveSingleDelims ==
  /\ syntax.is_single_quotes =>
       Len(syntax.quote.str1) = 1 /\ Len(syntax.quote.str2) = 1
  /\ syntax.is_single_comments =>
       Len(syntax.comm.str1) = 1 /\ Len(syntax.comm.str2) = 1

(* P5: a non-zero quote age names the current one-character quote pair    *)
(* (m4__quote_cache rebuilds the pair from it) and every safety condition  *)
(* of set_quote_age holds in the current table: the age is never left     *)
(* stale by a call that changed quotes, comments or categories.            *)
QuoteAgeSafe ==
  LET age == syntax.quote_age
      lq == age.lo \div 2^8
      rq == age.lo % 2^8
      bc == syntax.comm.str1
  IN  age # NoAge =>
        /\ syntax.is_single_quotes
        /\ syntax.quote = [str1 |-> <<lq>>, str2 |-> <<rq>>]
        /\ \A ch \in {lq, rq} :
              ~HasSyntax(syntax, ch, {"ALPHA", "NUM", "OPEN", "COMMA",
                                      "CLOSE", "SPACE"})
        /\ lq # rq
        /\ bc # <<>> => bc[1] # rq /\ ~HasSyntax(syntax, bc[1], {"OPEN", "COMMA", "CLOSE"})
        /\ HasSyntax(syntax, COMMA_CHAR, {"COMMA"})

ChangeSyntaxIssuesFreshAge ==
  [][ (\E key \in Keys, action \in {"+", "-", "=", ""}, chars \in CharSets \cup {{}} :
         ChangeSyntax(key, action, chars))
      => \/ syntax'.quote_age = NoAge
         \/ syntax'.quote_age.hi > syntax.syntax_age ]_vars

(* syntax.c:758: local_syntax_age, an unsigned short, is promoted to int *)
(* before "<< 16".  The shift is defined in C only while the result fits *)
(* in a signed int, i.e. for syntax ages up to 0x7fff; every non-zero   *)
(* quote age evaluates it.                                               *)
INT_MAX == 2147483647
QuoteAgeShiftDefined ==
  syntax.quote_age # NoAge => syntax.quote_age.hi <= INT_MAX \div 2^16

(* Every checker a call runs leaves the flag it checked sound: '=' and    *)
(* reset run all three, '-' of a quote, comment or escape category on a  *)
(* non-empty string runs the matching one, an installer rechecks the     *)
(* escape flag when it is set.                                            *)
CheckersRepair ==
  [][ /\ "quotes" \in checked' => SingleQuotesSound'
      /\ "comments" \in checked' => SingleCommentsSound'
      /\ "escape" \in checked' => MacroEscapedExact' ]_vars

(* Spec 4.4: the installers "are the only callers that may shift a byte  *)
(* into LQUOTE/BCOMM", each into its own.  So m4_set_quotes gives BCOMM   *)
(* to no byte except the begin-comment the single comment delimiters     *)
(* still name, and m4_set_comment gives LQUOTE to no byte except the      *)
(* left quote the single quote delimiters still name.  The strip loops    *)
(* (syntax.c:603-606, 665-668) send every old delimiter byte back to its  *)
(* default category, which is the other installer's when it is ` or #.   *)
NewBearers(code) == Bearers(syntax'.table, code) \ Bearers(syntax.table, code)
Named(flag, delims) == IF syntax[flag] THEN {syntax[delims].str1[1]} ELSE {}
InstallersShiftOnlyTheirOwn ==
  [][ /\ \A p \in QuotePairs : ChangeQuote(p[1], p[2]) =>
           NewBearers("BCOMM") \subseteq Named("is_single_comments", "comm")
      /\ \A p \in CommentPairs : ChangeCom(p[1], p[2]) =>
           NewBearers("LQUOTE") \subseteq Named("is_single_quotes", "quote") ]_vars

(***************************************************************************)
(* Refinement: the byte-level table implements the category-level         *)
(* specification SyntaxCategories.  The mapping forgets the encoding of    *)
(* an entry (basis plus masks) and keeps, for every category, the set of   *)
(* bytes that bear it.                                                     *)
(***************************************************************************)
Categories == INSTANCE SyntaxCategories
                WITH Default   <- [ch \in Bytes |-> Orig(ch)],
                     DefRquote <- DEF_RQUOTE[1],
                     DefEcomm  <- DEF_ECOMM[1],
                     bearers   <- [c \in Basis \cup Masks |-> Bearers(syntax.table, c)],
                     call      <- call

(* Every change the changesyntax verbs, the installers and the full reset *)
(* make to the table (add_syntax_set ... reset_syntax_set, m4_set_quotes, *)
(* m4_set_comment, m4_set_syntax) is a step of the category-level        *)
(* specification: the per-byte walks, the basis/mask encoding and the     *)
(* strip loops of the installers move exactly the bytes sections 4.3-4.4  *)
(* say they move, and nothing else (the checkers never touch the table).  *)
CategoriesRefined == Categories!Spec

(* The refresh protocol of m4__quote_cache (syntax.c:766-776): a result  *)
(* kept across other calls, whose static bytes those calls may rewrite,   *)
(* is read back after m4__quote_cache(syntax, NULL, age, result) with the *)
(* age it was obtained under, and then holds the very pair it held when   *)
(* it was handed out, whatever calls and table changes came in between.   *)
RefreshRestores ==
  [][ RefreshQuoteCache =>
        LET r == QuoteCacheCall(syntax, FALSE, held.age, held.ptr)
        IN  Deref(syntax', r.ptr) = held.got ]_vars

(* The spec (4.6, 6.12): the copy m4__quote_cache memoizes is invalidated *)
(* by every verb and installer, so a call always hands out the current    *)
(* quote pair.                                                             *)
QuoteCacheCurrent == view # NULL => view = m4_get_syntax_quotes(syntax)

=============================================================================
