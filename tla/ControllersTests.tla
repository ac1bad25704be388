-------------------------- MODULE ControllersTests --------------------------
(***************************************************************************)
(* The unit tests of the controllers package, stated of the operators that *)
(* model what they test.                                                   *)
(***************************************************************************)
EXTENDS Controllers

owner == "big boss"
imposter == "imposter"
friend == "buddy"

admin_checks ==
    /\ is_admin(owner, owner) /\ ~is_admin(owner, imposter)
    /\ assert_admin(owner, owner) /\ ~assert_admin(owner, imposter)
    /\ ~is_admin(None, owner) /\ ~is_admin(None, imposter)
    /\ ~assert_admin(None, owner) /\ ~assert_admin(None, imposter)

test_execute_query ==
    /\ query_admin(owner) = owner
    /\ ~assert_admin(owner, imposter)
    /\ assert_admin(owner, owner)
    /\ query_admin(friend) = friend

-----------------------------------------------------------------------------

TEST_AMOUNT == 1000
TEST_EXPIRATION == AtHeight(10)

\* The claims the tests begin with: the larger one last, or first.
early == Claim(TEST_AMOUNT, AtHeight(10))
late == Claim(TEST_AMOUNT + 100, AtHeight(100))
larger == Claim(TEST_AMOUNT + 100, AtHeight(10))
smaller == Claim(TEST_AMOUNT, AtHeight(5))

create(claim_list) ==
    FoldLeft(LAMBDA stored, c : create_claim(stored, c.amount, c.release_at), None, claim_list)

\* claim_tokens at a height, and what is saved.
claimed(claim_list, height, cap) ==
    claim_tokens(create(claim_list), [height |-> height, time |-> 0], cap)

pays(amount, left) == [to_send |-> amount, waiting |-> left]

check_create_claim_updates_map ==
    LET one == create_claim(None, TEST_AMOUNT, TEST_EXPIRATION)
    IN  /\ one = <<Claim(TEST_AMOUNT, TEST_EXPIRATION)>>
        /\ create_claim(one, TEST_AMOUNT + 100, TEST_EXPIRATION) =
             one \o <<Claim(TEST_AMOUNT + 100, TEST_EXPIRATION)>>

test_claim_tokens_with_no_claims == claimed(<<>>, 12345, None) = pays(0, <<>>)

test_claim_tokens_with_no_released_claims ==
    claimed(<<larger, late>>, 0, None) = pays(0, <<larger, late>>)

test_claim_tokens_with_one_released_claim ==
    claimed(<<early, late>>, 20, None) = pays(TEST_AMOUNT, <<late>>)

test_claim_tokens_with_all_released_claims ==
    claimed(<<early, late>>, 1000, None) = pays(TEST_AMOUNT + TEST_AMOUNT + 100, <<>>)

test_claim_tokens_with_zero_cap ==
    claimed(<<early, late>>, 1000, 0) = pays(0, <<early, late>>)

test_claim_tokens_with_cap_greater_than_pending_claims ==
    claimed(<<early, late>>, 1000, 2100) = pays(TEST_AMOUNT + TEST_AMOUNT + 100, <<>>)

test_claim_tokens_with_cap_only_one_claim_released ==
    claimed(<<larger, smaller>>, 1000, TEST_AMOUNT + 50) = pays(TEST_AMOUNT, <<larger>>)

test_claim_tokens_with_cap_too_low_no_claims_released ==
    claimed(<<larger, smaller>>, 1000, TEST_AMOUNT - 50) = pays(0, <<larger, smaller>>)

test_query_claims_returns_correct_claims == query_claims(create(<<larger>>)) = <<larger>>

test_query_claims_returns_empty_for_non_existent_user == query_claims(None) = <<>>

ControllersTestsPass ==
    /\ admin_checks /\ test_execute_query
    /\ check_create_claim_updates_map
    /\ test_claim_tokens_with_no_claims
    /\ test_claim_tokens_with_no_released_claims
    /\ test_claim_tokens_with_one_released_claim
    /\ test_claim_tokens_with_all_released_claims
    /\ test_claim_tokens_with_zero_cap
    /\ test_claim_tokens_with_cap_greater_than_pending_claims
    /\ test_claim_tokens_with_cap_only_one_claim_released
    /\ test_claim_tokens_with_cap_too_low_no_claims_released
    /\ test_query_claims_returns_correct_claims
    /\ test_query_claims_returns_empty_for_non_existent_user

=============================================================================
