----------------------------- MODULE MCAccountDO -----------------------------
(***************************************************************************)
(* Small instances of AccountDO: the ratios of config.rs are kept where a  *)
(* property depends on them (DEDUPE = DAY, WINDOW < DAY < period, a plan   *)
(* with a limit and one without), the magnitudes are not.                  *)
(***************************************************************************)
EXTENDS AccountDO

CONSTANTS img, vid, q1, q2, basic, pro, k1, k2

MCKindOf == [p \in Paths |-> IF p = img THEN "Image"
                             ELSE IF p = vid THEN "Video" ELSE "Search"]
MCCost == [Image |-> 1, Video |-> 2, Search |-> 3, EmbedSearch |-> 2]
MCPricePoints       == [p \in Plans |-> IF p = basic THEN 3 ELSE 5]
MCViewsPerWindow    == [p \in Plans |-> IF p = basic THEN 2 ELSE None]
MCSearchesPerWindow == [p \in Plans |-> 1]
MCPeriodSecs        == [p \in Plans |-> 4]
MCCreditPoints      == {4, -2}
=============================================================================
