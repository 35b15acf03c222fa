SPECIFICATION SmokeSpec
CONSTANTS
  Nothing = Nothing
  MaxMade = 4
  MaxSmokeFaults = 2
INVARIANTS SmokeTypeOK VerdictsOwed ForgeriesInHand PassMeansRefused TeardownComplete
