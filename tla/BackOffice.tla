------------------------------ MODULE BackOffice ------------------------------
(***************************************************************************)
(* The administration of tenants and catalogue, behind the rate limiter.   *)
(* The limiter guards routes and looks at none of their state, so each of  *)
(* the surroundings considers one of the two.                              *)
(***************************************************************************)
EXTENDS Catalogue, RateLimiter

backOfficeVars == <<catalogueAllVars, rateVars>>

BackOfficeTypeOK == CatalogueTypeOK /\ RateTypeOK

BackOfficeInit == CatalogueInit /\ RateInit

BackOfficeNext ==
    \/ CatalogueNext /\ UNCHANGED rateVars
    \/ Serves("rate") /\ RateNext /\ UNCHANGED catalogueAllVars

BackOfficeSpec == BackOfficeInit /\ [][BackOfficeNext]_backOfficeVars

=============================================================================
