SPECIFICATION Spec
CONSTANTS
    Ciphers <- MCCiphers
    Values = {1}
    Places <- MCPlaces
    NoItem = NoItem
    NotSent = NotSent
    KdfParams <- MCKdfParams
    UserKeys <- MCUserKeys
    Answers <- MCAnswers
    CipherForms <- MCCipherForms
    LabelForms <- MCLabelForms
    FieldNames <- MCFieldNames
    Preferred = 2
    MaxCiphers = 2
INVARIANTS
    AuthenticatedOnly
    AccountedFor
    NoSilentLoss
    KdfAsAsked
