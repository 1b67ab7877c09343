\* Listings and tables of up to four lines in each dialect, uptimes of up to
\* three parts, JSON answers of up to seven characters, NETCONF replies of up to
\* seven tokens.
SPECIFICATION Spec
CONSTANTS
    Sorts = {{"input"}, {"inputErrors"}, {"inputError"}, {"mtuBandwidth"}, {"bandwidth"},
             {"mtu", "bandwidth"}}
    MaxLines = 4
    Sizes = 3
    MaxParts = 3
    Tags = {"a", "b"}
    MaxTokens = 7
    MaxCharacters = 7
INVARIANTS
    ListingReadsSections
    ObjectFoundIfBalanced
    NumbersAreLeaves
    UptimeInSeconds
PROPERTIES
    CutListingIsPrefix
    CutTableIsLess
