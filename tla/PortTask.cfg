\* Five plugins that claim, in every order; two plugins that report the same CVE.
SPECIFICATION Spec
CONSTANTS
    Directories <- PluginDirectories
    Detected <- Banners
    CveDatabase <- Database
    FixedIn <- Fixes
INVARIANTS
    PluginsSeeWhatIsReported
    ChecksMatchService
    NoCveLost
    DedupKeepsTheBest
