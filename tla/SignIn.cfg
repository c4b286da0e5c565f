CONSTANTS
    Keys           <- MCKeys
    Texts          <- MCTexts
    PortNumber     <- MCPortNumber
    Written        <- MCWritten
    Certificate    <- MCCertificate
    Passphrases    <- MCPassphrases
    Digests        <- MCDigests
    ServerSettings <- MCServerSettings
    DaemonSettings <- MCDaemonSettings
    Order          = 7
    Challenges     = {0, 1, 3, 5, 9, 11, 13}
SPECIFICATION Spec
INVARIANT SignInInv
INVARIANT SettingsIntended
INVARIANT AgreementSuffices
INVARIANT WrongPassphraseRefused
