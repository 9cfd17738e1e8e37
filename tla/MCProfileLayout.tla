---------------------------- MODULE MCProfileLayout ----------------------------
(* Instances of ProfileLayout for TLC.                                      *)
EXTENDS ProfileLayout, TLC

CONSTANTS about, memberships, cv, groups, blog,
          book, thesis, w1, w2, tab1, tab2

FieldsOf == [left |-> <<about, memberships>>, right |-> <<cv, groups>>]
InOrder == <<book, thesis>>
HeadingOf == w1 :> book @@ w2 :> thesis

Surrounding(pages, parts, hasty, flaky, others, visitors) ==
  [pages |-> pages, parts |-> parts, hasty |-> hasty, flaky |-> flaky,
   others |-> others, visitors |-> visitors]

\* A patient member with one tab; two tabs used at once; one tab in a hurry, beside
\* other applications and with requests that fail; visitors while works are hidden
\* and shown.
Mixed ==
  {Surrounding({tab1}, Columns, FALSE, FALSE, FALSE, FALSE),
   Surrounding({tab1}, {"order", "works", "style"}, FALSE, FALSE, FALSE, FALSE),
   Surrounding({tab1, tab2}, {"style"}, TRUE, FALSE, FALSE, FALSE),
   Surrounding({tab1}, {"works"}, TRUE, TRUE, TRUE, FALSE),
   Surrounding({tab1}, {"works"}, FALSE, TRUE, FALSE, TRUE)}
================================================================================
