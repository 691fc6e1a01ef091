------------------------------ MODULE MC_Syntax ------------------------------
(***************************************************************************)
(* Model-checking instances of Syntax.  The characters are the default     *)
(* quotes and comments, the comma and the newline; each run offers       *)
(* a small alphabet of keys, character sets and      *)
(* delimiter strings so that its state space is explored exhaustively,    *)
(* for calls sequences of any length.                                     *)
(***************************************************************************)
EXTENDS Syntax

MCBytes    == {96, 39, 35, 10, 44}     \* ` ' # newline ,
MCAgeMax   == 3
NoKeys     == {}
NoCharSets == {}
NoPairs    == {}

(* With Refreshing FALSE no result is held, so the static bytes of        *)
(* cached_simple are read only right after the call that wrote them; the *)
(* state graph is explored up to that field.                              *)
NoRefreshView == <<[syntax EXCEPT !.cached_simple = <<>>], view, checked, held>>
(* The request that led to a state is not part of the state: it is read  *)
(* only by the refinement mapping, on the step it labels.                *)
RefreshView == <<syntax, view, checked, held>>

(* Quotes and the comma: the categories set_quote_age reads. *)
QuoteKeys     == {"L", "R", ","}
QuoteCharSets == {{}, {96}, {44}}
QuoteQuotePairs   == {<<NULL, NULL>>, <<<<>>, <<>>>>, <<<<39>>, <<96>>>>,
                      <<<<35>>, NULL>>, <<<<96, 96>>, <<39>>>>}
QuoteCommentPairs == {<<NULL, NULL>>, <<<<39>>, NULL>>, <<<<44>>, <<>>>>}

(* Comments and the escape: the categories the installers and the escape *)
(* flag interact through.                                                 *)
CommentKeys         == {"B", "E", "@"}
CommentCharSets     == {{}, {35}, {44}}
CommentQuotePairs   == {<<NULL, NULL>>, <<<<35>>, <<44>>>>}
CommentCommentPairs == {<<NULL, NULL>>, <<<<39>>, NULL>>, <<<<44>>, <<35, 35>>>>}

(* Escape and alphabetic categories added over one another. *)
EscapeKeys     == {"@", "W"}
EscapeCharSets == {{}, {35}}

(* A basis category added over the left quote. *)
AddKeys     == {"O"}
AddCharSets == {{96}}

(* changequote onto the begin-comment character. *)
OverlapQuotePairs == {<<<<35>>, NULL>>}

(* Multi-character, then empty, quotes read through the quote cache. *)
CacheQuotePairs == {<<<<96, 96>>, <<39>>>>, <<<<>>, <<>>>>}
(* Every category kind for the refinement: a basis with a non-default    *)
(* bearer, both masks, and installers that strip and reinstall.          *)
RefineKeys         == {"L", "E", "B"}
RefineCharSets     == {{35}, {96, 10}}
RefineQuotePairs   == {<<NULL, NULL>>, <<<<35>>, NULL>>}
RefineCommentPairs == {<<NULL, NULL>>, <<<<96>>, NULL>>}

(* Quote pairs with different non-zero ages and one with age zero, and a *)
(* changesyntax call that only bumps the syntax age, read through a      *)
(* caller that keeps one result to refresh.                               *)
RefreshKeys       == {","}
RefreshCharSets   == {{44}}
RefreshQuotePairs == {<<NULL, NULL>>, <<<<39>>, <<96>>>>, <<<<96, 96>>, <<39>>>>}

(* The installers stripping each other's default delimiters. *)
StripQuotePairs   == {<<NULL, NULL>>, <<<<35>>, NULL>>}
StripCommentPairs == {<<<<44>>, NULL>>}


(* The real saturation bound of syntax_age.  A run at this bound starts   *)
(* from the table reached by n calls of changesyntax(`,+,'): ',' is      *)
(* already COMMA, so each call leaves the table as created and only      *)
(* increments the counter, and the quote age is recomputed for it.       *)
RealAgeMax == 65535
AgedInit(starts) ==
  /\ \E n \in starts :
       syntax = [InitSyntax EXCEPT !.syntax_age = n,
                                   !.quote_age = QuoteAgeFor(InitSyntax, n)]
  /\ view = NULL
  /\ checked = {}
  /\ held = NULL
  /\ call = Call("+", "COMMA", {COMMA_CHAR}, <<>>, <<>>)
(* Three calls before saturation, with quote changes and a reset. *)
SaturateSpec == AgedInit({RealAgeMax - 3}) /\ [][Next]_vars
SaturateKeys       == {",", "L"}
SaturateCharSets   == {{44}, {96}}
SaturateQuotePairs == {<<NULL, NULL>>, <<<<39>>, <<96>>>>}
SaturateCommentPairs == {<<<<39>>, NULL>>}
(* Two calls before the syntax age 0x8000. *)
WidthSpec == AgedInit({2^15 - 2}) /\ [][Next]_vars
WidthKeys     == {","}
WidthCharSets == {{44}}
==============================================================================
