----------------------------- MODULE MCRuleIndex -----------------------------
(***************************************************************************)
(* Bounds for RuleIndex are numbers: see MCRuleIndex.cfg.                  *)
(***************************************************************************)
EXTENDS RuleIndex
=============================================================================
