CONSTANT MaxAttempts = 3
SPECIFICATION UpdSpec
PROPERTIES ConfirmationLasts
