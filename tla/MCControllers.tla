--------------------------- MODULE MCControllers ----------------------------
(***************************************************************************)
(* Controllers with claims that fit under a cap, that do not, and whose    *)
(* sum overflows; and the unit tests of the controllers and of cw-utils,   *)
(* which are about no state and are looked at in the first.                *)
(***************************************************************************)
EXTENDS ControllersTests, UtilsReferences

\* In the second block and in the third.
MCReleases == {AtHeight(2), AtTime(10)}

AddressSymmetry == Permutations(Addr)

\* The models answer what the unit tests of claim.rs, admin.rs and cw-utils expect of
\* the code.
AgreesWithTests == Init => ControllersTestsPass /\ UtilsTestsPass

\* Balances, thresholds and replies are what their reference definitions say, over all
\* bounded inputs: normalize, add and sub count every denomination and overflow when
\* they must, an accepted threshold decides, and a reply that was cut off is refused.
HelpersMatchReferences == Init => UtilsMatchReferences

=============================================================================
